---- MODULE Spec2Model ----
(***************************************************************************)
(* Ingestion and index-lifecycle engine of the activity stream service     *)
(* (core/app/app_outgoing.py, app_elasticsearch.py, app_utils.py).         *)
(*                                                                         *)
(* One process (the leader) runs, on one cooperative event loop:           *)
(*   - the outer ingester (startup garbage collection, then the gather of  *)
(*     the feed loops), supervised by async_repeat_until_cancelled;        *)
(*   - for every configured feed a full loop and an updates loop, each     *)
(*     supervised by async_repeat_until_cancelled, sharing one lock.       *)
(* Every await of the code is one step; the code between two awaits        *)
(* belongs to the step of the await that precedes it.                      *)
(*                                                                         *)
(* An index name is a sequence of tokens, so that the substring, prefix    *)
(* and wildcard matches of the code are computed on the name itself.       *)
(***************************************************************************)
EXTENDS Integers, Sequences, FiniteSets, TLC

\* ---------------------------------------------------------------- bounds
\* total number of failures (raised exceptions) explored in one run
MaxFailures == 1
\* number of distinct random batch ids get_new_index_name can draw
NumUniques == 2
\* number of pages in the page chain a feed serves
NumPages == 2
\* with several feeds: total number of passes (of any loop) explored
MaxRuns == 3
\* length of the supervisor event log of the supervisor specification
MaxLog == 34
\* number of activities the publisher of a feed adds to its last page
MaxPublish == 1
\* number of full ingests a second process starts
MaxPeerRuns == 1
\* number of processes started against the same KV store
NumProcs == 2
\* time to live of the key 'lock', in ticks of the clock of the lease
TtlTicks == 2
\* number of rounds of the metrics sampler
MaxRounds == 2
\* number of items of a bulk request
MaxItems == 3
\* the longest feed id
MaxIdLen == 2

\* ------------------------------------------------------- program constants
ALIAS == <<"activities">>

EXCEPTION_INTERVALS == <<1, 2, 4, 8, 16, 32, 64>>

\* ------------------------------------------------------------- text helpers
Min(a, b) == IF a <= b THEN a ELSE b

\* Python: prefix_ in the sense of str.startswith
StartsWith(name, prefix) ==
    /\ Len(prefix) <= Len(name)
    /\ SubSeq(name, 1, Len(prefix)) = prefix

\* Python: part in name (substring test)
Contains(name, part) ==
    \E i \in 0..(Len(name) - Len(part)) : SubSeq(name, i + 1, i + Len(part)) = part

\* ------------------------------------------------------------ configuration
\* a feed that was configured by an earlier deployment and is no longer
DecommissionedId == <<"F0">>

UniquePool == <<"u1", "u2", "u3", "u4">>

Uniques == {UniquePool[i] : i \in 1..NumUniques}

HrefPool == <<"h1", "h2", "h3", "h4">>

\* feed.seed
seed == HrefPool[1]

\* the next_url of the page served at href by a feed whose chain has
\* pages pages; empty on the last page
next_url(pages, href) ==
    IF \E i \in 1..(pages - 1) : HrefPool[i] = href
    THEN HrefPool[(CHOOSE i \in 1..(pages - 1) : HrefPool[i] = href) + 1]
    ELSE ""

\* --------------------------------------------------------------- index names
get_new_index_name(feed_unique_id, today, now, unique) ==
    ALIAS \o <<"_", "_", "feed_id_">> \o feed_unique_id \o <<"_", "_">>
          \o <<"date_", today, "_", "_", "timestamp_", now, "_", "_">>
          \o <<"batch_id_", unique, "_", "_">>

\* a comparison with == where the code tests for a substring
indexes_matching_feed_equal(index_names, feed_unique_id) ==
    {index_name \in index_names :
        index_name = ALIAS \o <<"_", "_", "feed_id_">> \o feed_unique_id \o <<"_", "_">>}

indexes_matching_feed(index_names, feed_unique_id) ==
    {index_name \in index_names :
        Contains(index_name, ALIAS \o <<"_", "_", "feed_id_">> \o feed_unique_id \o <<"_", "_">>)}

\* a match that forgets the feed ids
indexes_matching_feeds_any(index_names, feed_unique_ids) == index_names

indexes_matching_feeds(index_names, feed_unique_ids) ==
    UNION {indexes_matching_feed(index_names, feed_unique_id) :
               feed_unique_id \in feed_unique_ids}

indexes_matching_no_feeds(index_names, feed_unique_ids) ==
    {index_name \in index_names :
        index_name \notin indexes_matching_feeds(index_names, feed_unique_ids)}

\* the indexes the backend resolves the wildcard of the remove action to
remove_pattern_matches(index_names, feed_unique_id) ==
    {index_name \in index_names :
        StartsWith(index_name, ALIAS \o <<"_", "_", "feed_id_">> \o feed_unique_id \o <<"_", "_">>)}

\* ------------------------------------------------------------------- tasks
OUTER == <<<<>>, "ingester">>

Loop(f, t) == <<f, t>>


PROBE == <<<<"T">>, "task">>

\* a lock created once per loop instead of once per feed
feed_lock_per_loop(f, t) == <<f, t>>

\* a lock created once for all the feeds
feed_lock_global(f, t) == <<<<>>, "lock">>

\* the lock a loop of feed f takes around its fetch: one asyncio.Lock per
\* feed_endpoint, shared by the full and the updates loop of the feed
feed_lock(f, t) == <<f, "lock">>

VARIABLES
    feed_endpoints,           \* configuration: unique_id -> the feed (never assigned)
    run_budget,               \* passes explored, 0: any number (never assigned)
    runs,                     \* passes started, counted under a run_budget
    indexes,                  \* backend: names of the existing indexes
    alias,                    \* backend: members of the alias 'activities'
    docs,                     \* backend: the activities each index holds
    published,                \* feed server: activities added to the last page
    feed_updates_seed_url,    \* KV: feed_updates_seed_url:<id>
    feed_updates_url,         \* KV: feed_updates_url:<id>
    locked,                   \* the asyncio.Lock objects that are locked
    gc,                       \* frame of ingest_feeds (outer ingester)
    task,                     \* frames of ingest_feed_full / ingest_feed_updates
    sup_pc,                   \* where each async_repeat_until_cancelled is
    num_exceptions_in_chain,  \* its counter
    exception_interval,       \* its last computed sleep
    exception_intervals,      \* its schedule (argument, never assigned)
    captured,                 \* raven_client.captureException() calls
    cancelling,               \* cancel_non_current_tasks() has cancelled the tasks
    sup_log,                  \* events of the probed supervisor
    recorded,                 \* history: feeds with a completed set_feed_updates_seed_url
    updates_items,            \* history: the new activities the updates passes
                              \* pushed while the current full ingest was in flight
    peer,                     \* frame of ingest_feed_full in a second process
    proc,                     \* per process: where run_outgoing_application is
    lock,                     \* KV: the key 'lock' and its time to live
    poll,                     \* frame of poll_metrics (metrics sampler)
    metrics,                  \* the gauges: label -> round of its last set()
    redis_metrics,            \* KV: the key 'metrics'
    call                      \* one call of a function: its arguments and its result

\* feed_unique_ids(feed_endpoints)
feed_unique_ids == DOMAIN feed_endpoints

Loops == {Loop(f, t) : f \in feed_unique_ids, t \in {"full", "updates"}}

\* a next_href that skips the page that follows
next_href_skipping(f, href) ==
    next_url(feed_endpoints[f].pages, next_url(feed_endpoints[f].pages, href))

\* feed.next_href(feed_parsed) for the page fetched at href
next_href(f, href) == next_url(feed_endpoints[f].pages, href)

config == <<feed_endpoints, run_budget>>

vars == <<feed_endpoints, run_budget, runs, indexes, alias, docs, published,
          feed_updates_seed_url, feed_updates_url, locked, gc, task,
          sup_pc, num_exceptions_in_chain, exception_interval, exception_intervals,
          captured, cancelling, sup_log, recorded, updates_items,
          peer, proc, lock, poll, metrics, redis_metrics, call>>

backend == <<indexes, alias, docs>>

observed == <<recorded, updates_items>>

lease == <<proc, lock>>

sampler == <<poll, metrics, redis_metrics>>

kv == <<feed_updates_seed_url, feed_updates_url>>

sup == <<sup_pc, num_exceptions_in_chain, exception_interval, exception_intervals,
         captured, sup_log>>

\* ------------------------------------------------------------------ frames
\* KV values: a key that is absent, and the sentinel the full ingest writes
\* before it has produced a starting point
ABSENT == "<absent>"

NOT_EXISTS == "__NOT_EXISTS__"

\* the locals of ingest_feed_full / ingest_feed_updates; pending is what the
\* for loop of delete_indexes (full) or of the refreshes (updates) has still
\* to visit. started_with and failed_at are not locals: they record the
\* alias members when the pass started and the await at which it failed
IdleFrame ==
    [pc |-> "idle", href |-> "", updates_href |-> "", index_names |-> {},
     indexes_without_alias |-> {}, indexes_with_alias |-> {},
     indexes_to_delete |-> {}, pending |-> {}, feed_parsed |-> {},
     started_with |-> {}, failed_at |-> ""]

\* the frame of a coroutine that has run up to its first await
FirstAwait(t, live) ==
    [IdleFrame EXCEPT !.pc = IF t = "full" THEN "init" ELSE "get_url",
                      !.started_with = IF t = "full" THEN live ELSE {}]

\* --------------------------------------------------------------- supervisor
Event(e, n) == [e |-> e, n |-> n]

Logged(s, events) == IF s = PROBE THEN sup_log \o events ELSE sup_log

\* an index that wraps around instead of staying on the last interval
interval_index_wrapping(s) ==
    num_exceptions_in_chain[s] % Len(exception_intervals[s])

interval_index(s) ==
    Min(num_exceptions_in_chain[s], Len(exception_intervals[s]) - 1)

\* a return that leaves the counter as it is
SupReturned_without_reset(s) ==
    /\ sup_log' = Logged(s, <<Event("returned", 0), Event("run", 0)>>)
    /\ UNCHANGED <<sup_pc, num_exceptions_in_chain, exception_interval,
                   exception_intervals, captured>>

\* coroutine() returned: the counter is reset and the loop calls it again
SupReturned(s) ==
    /\ num_exceptions_in_chain' = [num_exceptions_in_chain EXCEPT ![s] = 0]
    /\ sup_log' = Logged(s, <<Event("returned", 0), Event("run", 0)>>)
    /\ UNCHANGED <<sup_pc, exception_interval, exception_intervals, captured>>

\* coroutine() raised something that is not a CancelledError
SupRaised(s) ==
    /\ exception_interval' =
           [exception_interval EXCEPT ![s] = exception_intervals[s][interval_index(s) + 1]]
    /\ num_exceptions_in_chain' =
           [num_exceptions_in_chain EXCEPT ![s] = num_exceptions_in_chain[s] + 1]
    /\ captured' = captured + 1
    /\ sup_pc' = [sup_pc EXCEPT ![s] = "sleep"]
    /\ sup_log' = Logged(s, <<Event("raised", 0), Event("captured", 0),
                              Event("sleep", exception_intervals[s][interval_index(s) + 1])>>)
    /\ UNCHANGED exception_intervals

\* asyncio.sleep(exception_interval) returned: next iteration of while True
SupSleepDone(s) ==
    /\ sup_pc' = [sup_pc EXCEPT ![s] = "task"]
    /\ sup_log' = Logged(s, <<Event("run", 0)>>)
    /\ UNCHANGED <<num_exceptions_in_chain, exception_interval, exception_intervals, captured>>

\* a supervisor that is not stopped by a CancelledError in its backoff sleep
cancelled_pc_only_running(pc) ==
    IF pc = "task" THEN "done" ELSE IF pc = "handler" THEN "close" ELSE pc

\* CancelledError out of coroutine() or out of asyncio.sleep: break. The task
\* of cleanup itself is not cancelled: it goes on to close the clients
cancelled_pc(pc) ==
    IF pc \in {"task", "sleep"} THEN "done" ELSE IF pc = "handler" THEN "close" ELSE pc

\* a cancellation that falls into the except BaseException branch
SupCancelled_as_failure(s) == SupRaised(s)

SupCancelled(s) ==
    /\ sup_pc' = [sup_pc EXCEPT ![s] = cancelled_pc(sup_pc[s])]
    /\ sup_log' = Logged(s, <<Event("exit", 0)>>)
    /\ UNCHANGED <<num_exceptions_in_chain, exception_interval, exception_intervals, captured>>

\* a listing that forgets to look at the aliases of an index
indexes_listed ==
    {index_name \in indexes : StartsWith(index_name, ALIAS \o <<"_">>)}

\* a listing that takes the aliased indexes for the ones without alias
indexes_without_alias_inverted ==
    {index_name \in indexes : StartsWith(index_name, ALIAS \o <<"_">>) /\ index_name \in alias}

\* ------------------------------------------------------------------- backend
\* GET /_aliases as get_old_index_names reads it
indexes_without_alias ==
    {index_name \in indexes : StartsWith(index_name, ALIAS \o <<"_">>) /\ index_name \notin alias}

indexes_with_alias ==
    {index_name \in indexes : StartsWith(index_name, ALIAS \o <<"_">>) /\ index_name \in alias}

\* the documents after DELETE /<index_name>
deleted_index(index_name) ==
    [other \in DOMAIN docs \ {index_name} |-> docs[other]]

\* the documents after PUT /<index_name>
created_index(index_name) ==
    [other \in DOMAIN docs \cup {index_name} |->
        IF other = index_name THEN {} ELSE docs[other]]

\* --------------------------------------------------------------- feed pages
\* the activities of the page a feed serves at href: one that is always
\* there, and on the last page the ones its publisher has added since
feed_contents(f, href) ==
    {<<href, k>> : k \in 0..(IF next_href(f, href) = "" THEN published[f] ELSE 0)}

\* the activities of a page that were added during the run
new_activities(feed_parsed) == {activity \in feed_parsed : activity[2] >= 1}

\* feed.convert_to_bulk_es: one bulk item for every activity and index name
convert_to_bulk_es(feed_parsed, index_names) == feed_parsed \X index_names

\* the documents after POST /_bulk of the items: an item is indexed into the
\* index it names
es_bulk(items) ==
    [index_name \in DOMAIN docs |->
        docs[index_name] \cup {item[1] : item \in {i \in items : i[2] = index_name}}]

\* ------------------------------------------------------------ initial states
OldIndex(id, i) == get_new_index_name(id, "D0", "T0", UniquePool[i])

\* what earlier runs can have left in the backend and in the KV store:
\* nothing; or a live and an orphaned index of feed F1 and of a decommissioned
\* feed, and the cursor of the last updates pass of F1
InitStores ==
    { [indexes |-> {}, alias |-> {}, updates_url |-> ABSENT],
      [indexes |-> {OldIndex(<<"F1">>, 1), OldIndex(<<"F1">>, 2),
                    OldIndex(DecommissionedId, 1), OldIndex(DecommissionedId, 2)},
       alias |-> {OldIndex(<<"F1">>, 1), OldIndex(DecommissionedId, 1)},
       updates_url |-> HrefPool[1]] }

InitEngine ==
    /\ \E b \in InitStores :
          /\ indexes = b.indexes /\ alias = b.alias
          /\ docs = [index_name \in b.indexes |-> {}]
          /\ feed_updates_url = [f \in feed_unique_ids |->
                                   IF f = <<"F1">> THEN b.updates_url ELSE ABSENT]
    /\ feed_updates_seed_url = [f \in feed_unique_ids |-> ABSENT]
    /\ locked = {}
    /\ gc = [pc |-> "list", indexes_to_delete |-> {}]
    /\ task = [l \in Loops |-> IdleFrame]
    /\ cancelling = FALSE
    /\ captured = 0
    /\ runs = 0
    /\ published = [f \in feed_unique_ids |-> 0]
    /\ recorded = {}
    /\ updates_items = [f \in feed_unique_ids |-> {}]

InitSupervisors ==
    /\ sup_pc = [s \in Loops \cup {OUTER} |-> IF s = OUTER THEN "task" ELSE "unstarted"]
    /\ num_exceptions_in_chain = [s \in Loops \cup {OUTER} |-> 0]
    /\ exception_interval = [s \in Loops \cup {OUTER} |-> 0]
    /\ exception_intervals = [s \in Loops \cup {OUTER} |-> EXCEPTION_INTERVALS]
    /\ sup_log = <<>>

\* no call of a function on its own
CallOff == call = [op |-> "none"]

\* the key 'metrics' before the first snapshot is written
NoSnapshot == [label \in {} |-> 0]

\* no second process, no other candidate for the lock, no metrics sampler
PeerFrame(at, passes) ==
    [pc |-> at, index_name |-> <<>>, pending |-> {}, href |-> "", updates_href |-> "",
     runs |-> passes]

PeerOff == peer = PeerFrame("off", 0)

LeaseOff ==
    /\ proc = [p \in {} |-> 0]
    /\ lock = [ttl |-> 0, by |-> ""]

SamplerOff ==
    /\ poll = [pc |-> "off"]
    /\ metrics = [label \in {} |-> 0]
    /\ redis_metrics = NoSnapshot

\* one configured feed, serving NumPages pages
Init ==
    /\ feed_endpoints = [f \in {<<"F1">>} |-> [pages |-> NumPages]]
    /\ run_budget = 0
    /\ InitEngine
    /\ InitSupervisors
    /\ PeerOff /\ LeaseOff /\ SamplerOff /\ CallOff

\* two configured feeds, the second one serving a single page
InitFeeds ==
    /\ feed_endpoints = (<<"F1">> :> [pages |-> 2]) @@ (<<"F2">> :> [pages |-> 1])
    /\ run_budget = MaxRuns
    /\ InitEngine
    /\ InitSupervisors
    /\ PeerOff /\ LeaseOff /\ SamplerOff /\ CallOff

\* -------------------------------------------------- outer ingester (startup GC)
CanFail == captured < MaxFailures

\* a gather that does not wait for the deletes
StartedLoops_early(remaining) ==
    /\ sup_pc' = [s \in DOMAIN sup_pc |-> IF s \in Loops THEN "task" ELSE sup_pc[s]]
    /\ task' = [l \in Loops |-> IF sup_pc[l] = "unstarted"
                                THEN FirstAwait(l[2], alias') ELSE task[l]]

\* asyncio.gather: every feed loop becomes a task that runs to its first await
StartedLoops(remaining) ==
    IF remaining = {}
    THEN /\ sup_pc' = [s \in DOMAIN sup_pc |-> IF s \in Loops THEN "task" ELSE sup_pc[s]]
         /\ task' = [l \in Loops |-> FirstAwait(l[2], alias')]
    ELSE UNCHANGED <<sup_pc, task>>

GcAfter(remaining) ==
    /\ gc' = [pc |-> IF remaining = {} THEN "gather" ELSE "delete",
              indexes_to_delete |-> remaining]
    /\ StartedLoops(remaining)

\* get_old_index_names answered; indexes_matching_no_feeds computed
GcList ==
    /\ ~cancelling /\ sup_pc[OUTER] = "task" /\ gc.pc = "list"
    /\ UNCHANGED backend
    /\ GcAfter(indexes_matching_no_feeds(indexes_without_alias \cup indexes_with_alias,
                                         feed_unique_ids))
    /\ UNCHANGED <<config, call, peer, lease, sampler, published, observed, runs, backend, kv, locked, cancelling, num_exceptions_in_chain,
                   exception_interval, exception_intervals, captured, sup_log>>

\* one DELETE /<index_name> of delete_indexes answered 200
GcDelete ==
    /\ ~cancelling /\ sup_pc[OUTER] = "task" /\ gc.pc = "delete"
    /\ \E index_name \in gc.indexes_to_delete :
          /\ index_name \in indexes
          /\ indexes' = indexes \ {index_name}
          /\ alias' = alias \ {index_name}
          /\ docs' = deleted_index(index_name)
          /\ GcAfter(gc.indexes_to_delete \ {index_name})
    /\ UNCHANGED <<config, call, peer, lease, sampler, published, observed, runs, kv, locked, cancelling, num_exceptions_in_chain,
                   exception_interval, exception_intervals, captured, sup_log>>

\* the listing or a delete raised: ingest_feeds is abandoned
GcFail ==
    /\ ~cancelling /\ sup_pc[OUTER] = "task" /\ gc.pc \in {"list", "delete"}
    /\ CanFail
    /\ SupRaised(OUTER)
    /\ gc' = [pc |-> "idle", indexes_to_delete |-> {}]
    /\ UNCHANGED <<config, call, peer, lease, sampler, published, observed, runs, backend, kv, locked, task, cancelling>>

\* the backoff sleep of the outer supervisor is over: ingest_feeds again
GcRetry ==
    /\ ~cancelling /\ sup_pc[OUTER] = "sleep"
    /\ SupSleepDone(OUTER)
    /\ gc' = [pc |-> "list", indexes_to_delete |-> {}]
    /\ UNCHANGED <<config, call, peer, lease, sampler, published, observed, runs, backend, kv, locked, task, cancelling>>

\* ----------------------------------------------------------------- KV store
set_feed_updates_seed_url_init(f) ==
    feed_updates_seed_url' = [feed_updates_seed_url EXCEPT ![f] = NOT_EXISTS]

set_feed_updates_seed_url(f, updates_href) ==
    feed_updates_seed_url' = [feed_updates_seed_url EXCEPT ![f] = updates_href]

set_feed_updates_url(f, updates_href) ==
    feed_updates_url' = [feed_updates_url EXCEPT ![f] = updates_href]

\* the url an updates pass starts from; empty while there is none yet
get_feed_updates_url(f) ==
    IF feed_updates_url[f] # ABSENT THEN feed_updates_url[f]
    ELSE IF feed_updates_seed_url[f] \notin {ABSENT, NOT_EXISTS} THEN feed_updates_seed_url[f]
    ELSE ""

\* ------------------------------------------------------------- page pipeline
Active(l) == ~cancelling /\ sup_pc[l] = "task"

\* a pass of loop l gets past its first await, within the run budget
Started(l) ==
    /\ run_budget = 0 \/ runs < run_budget
    /\ runs' = IF run_budget = 0 THEN runs ELSE runs + 1

\* ingest_feed_page up to its first await: async with feed_lock takes the
\* lock at once when it is free and waits for it otherwise
EnteredPage(l, frame) ==
    IF feed_lock(l[1], l[2]) \in locked
    THEN /\ task' = [task EXCEPT ![l] = [frame EXCEPT !.pc = "acquire"]]
         /\ UNCHANGED locked
    ELSE /\ task' = [task EXCEPT ![l] = [frame EXCEPT !.pc = "fetch"]]
         /\ locked' = locked \cup {feed_lock(l[1], l[2])}

\* a loop that waited for the lock gets it and sends its request
AcquireLock(l) ==
    /\ Active(l) /\ task[l].pc = "acquire"
    /\ feed_lock(l[1], l[2]) \notin locked
    /\ locked' = locked \cup {feed_lock(l[1], l[2])}
    /\ task' = [task EXCEPT ![l].pc = "fetch"]
    /\ UNCHANGED <<config, call, peer, lease, sampler, published, observed, runs, backend, kv, gc, sup, cancelling>>

\* get_feed_contents answered 200: the lock is released, the page parsed and
\* converted, and es_bulk is awaited
FetchDone(l) ==
    /\ Active(l) /\ task[l].pc = "fetch"
    /\ locked' = locked \ {feed_lock(l[1], l[2])}
    /\ task' = [task EXCEPT ![l] = [@ EXCEPT !.pc = "push",
                                              !.feed_parsed = feed_contents(l[1], task[l].href)]]
    /\ UNCHANGED <<config, call, peer, lease, sampler, published, observed, runs, backend, kv, gc, sup, cancelling>>

\* ---------------------------------------------------------------- full ingest
\* an init that stores the seed of the feed where the code stores the sentinel
FullInit_seeding(f) ==
    /\ Active(Loop(f, "full")) /\ task[Loop(f, "full")].pc = "init"
    /\ Started(Loop(f, "full"))
    /\ set_feed_updates_seed_url(f, seed)
    /\ task' = [task EXCEPT ![Loop(f, "full")].pc = "list"]
    /\ updates_items' = [updates_items EXCEPT ![f] = {}]
    /\ UNCHANGED <<config, call, peer, lease, sampler, published, recorded, backend, feed_updates_url, locked, gc, sup, cancelling>>

FullInit(f) ==
    /\ Active(Loop(f, "full")) /\ task[Loop(f, "full")].pc = "init"
    /\ Started(Loop(f, "full"))
    /\ set_feed_updates_seed_url_init(f)
    /\ task' = [task EXCEPT ![Loop(f, "full")].pc = "list"]
    /\ updates_items' = [updates_items EXCEPT ![f] = {}]
    /\ UNCHANGED <<config, call, peer, lease, sampler, published, recorded, backend, feed_updates_url, locked, gc, sup, cancelling>>

\* a full ingest that deletes none of the indexes it listed
FullList_keeping(f) ==
    /\ Active(Loop(f, "full")) /\ task[Loop(f, "full")].pc = "list"
    /\ task' = [task EXCEPT ![Loop(f, "full")] =
                  [@ EXCEPT !.pc = "scrub",
                            !.indexes_without_alias = indexes_without_alias,
                            !.indexes_to_delete = {},
                            !.pending = {},
                            !.indexes_with_alias = indexes_with_alias]]
    /\ UNCHANGED <<config, call, peer, lease, sampler, published, observed, runs, backend, kv, locked, gc, sup, cancelling>>

\* get_old_index_names answered; the unaliased indexes of the feed are to be deleted
FullList(f) ==
    /\ Active(Loop(f, "full")) /\ task[Loop(f, "full")].pc = "list"
    /\ task' = [task EXCEPT ![Loop(f, "full")] =
                  [@ EXCEPT !.pc = "scrub",
                            !.indexes_without_alias = indexes_without_alias,
                            !.indexes_to_delete =
                                indexes_matching_feeds(indexes_without_alias, {f}),
                            !.pending = indexes_matching_feeds(indexes_without_alias, {f}),
                            !.indexes_with_alias = indexes_with_alias]]
    /\ UNCHANGED <<config, call, peer, lease, sampler, published, observed, runs, backend, kv, locked, gc, sup, cancelling>>

\* one DELETE of delete_indexes answered 200
FullScrub(f) ==
    /\ Active(Loop(f, "full")) /\ task[Loop(f, "full")].pc = "scrub"
    /\ \E index_name \in task[Loop(f, "full")].pending :
          /\ index_name \in indexes
          /\ indexes' = indexes \ {index_name}
          /\ alias' = alias \ {index_name}
          /\ docs' = deleted_index(index_name)
          /\ task' = [task EXCEPT ![Loop(f, "full")].pending = @ \ {index_name}]
    /\ UNCHANGED <<config, call, peer, lease, sampler, published, observed, runs, kv, locked, gc, sup, cancelling>>

\* a full ingest that also ingests into the live indexes of the feed
FullCreate_with_live(f) ==
    /\ Active(Loop(f, "full")) /\ task[Loop(f, "full")].pc = "scrub"
    /\ task[Loop(f, "full")].pending = {}
    /\ \E unique \in Uniques :
          LET index_name == get_new_index_name(f, "D1", "T1", unique) IN
          /\ index_name \notin indexes
          /\ indexes' = indexes \cup {index_name}
          /\ docs' = created_index(index_name)
          /\ EnteredPage(Loop(f, "full"),
                         [IdleFrame EXCEPT
                             !.index_names =
                                 {index_name} \cup indexes_matching_feed(
                                     task[Loop(f, "full")].indexes_with_alias, f),
                             !.href = seed, !.updates_href = seed,
                             !.started_with = task[Loop(f, "full")].started_with])
    /\ UNCHANGED <<config, call, peer, lease, sampler, published, observed, runs, alias, kv, gc, sup, cancelling>>

\* create_index answered 200 for a fresh name; the page loop starts at the seed
FullCreate(f) ==
    /\ Active(Loop(f, "full")) /\ task[Loop(f, "full")].pc = "scrub"
    /\ task[Loop(f, "full")].pending = {}
    /\ \E unique \in Uniques :
          LET index_name == get_new_index_name(f, "D1", "T1", unique) IN
          /\ index_name \notin indexes
          /\ indexes' = indexes \cup {index_name}
          /\ docs' = created_index(index_name)
          /\ EnteredPage(Loop(f, "full"),
                         [IdleFrame EXCEPT
                             !.index_names = {index_name},
                             !.href = seed, !.updates_href = seed,
                             !.started_with = task[Loop(f, "full")].started_with])
    /\ UNCHANGED <<config, call, peer, lease, sampler, published, observed, runs, alias, kv, gc, sup, cancelling>>

\* es_bulk answered 200; ingest_feed_page returns next_href; sleep is awaited
FullPushDone(f) ==
    /\ Active(Loop(f, "full")) /\ task[Loop(f, "full")].pc = "push"
    /\ docs' = es_bulk(convert_to_bulk_es(task[Loop(f, "full")].feed_parsed,
                                          task[Loop(f, "full")].index_names))
    /\ task' = [task EXCEPT ![Loop(f, "full")] =
                  [@ EXCEPT !.pc = "page_sleep", !.href = next_href(f, @),
                            !.feed_parsed = {}]]
    /\ UNCHANGED <<config, call, peer, lease, sampler, published, observed, runs, indexes, alias, kv, locked, gc, sup, cancelling>>

\* a page loop that is followed by the cutover, without refresh_index
FullPageSleepDone_without_refresh(f) ==
    /\ Active(Loop(f, "full")) /\ task[Loop(f, "full")].pc = "page_sleep"
    /\ IF task[Loop(f, "full")].href # ""
       THEN EnteredPage(Loop(f, "full"),
                        [task[Loop(f, "full")] EXCEPT
                            !.updates_href = task[Loop(f, "full")].href])
       ELSE /\ task' = [task EXCEPT ![Loop(f, "full")].pc = "cutover"]
            /\ UNCHANGED locked
    /\ UNCHANGED <<config, call, peer, lease, sampler, published, observed, runs, backend, kv, gc, sup, cancelling>>

\* sleep(polling_page_interval) is over: next page, or refresh_index
FullPageSleepDone(f) ==
    /\ Active(Loop(f, "full")) /\ task[Loop(f, "full")].pc = "page_sleep"
    /\ IF task[Loop(f, "full")].href # ""
       THEN EnteredPage(Loop(f, "full"),
                        [task[Loop(f, "full")] EXCEPT
                            !.updates_href = task[Loop(f, "full")].href])
       ELSE /\ task' = [task EXCEPT ![Loop(f, "full")].pc = "refresh"]
            /\ UNCHANGED locked
    /\ UNCHANGED <<config, call, peer, lease, sampler, published, observed, runs, backend, kv, gc, sup, cancelling>>

\* a full ingest that records the seed of the updates before its cutover
FullRefresh_recording(f) ==
    /\ Active(Loop(f, "full")) /\ task[Loop(f, "full")].pc = "refresh"
    /\ task[Loop(f, "full")].index_names \subseteq indexes
    /\ set_feed_updates_seed_url(f, task[Loop(f, "full")].updates_href)
    /\ task' = [task EXCEPT ![Loop(f, "full")].pc = "cutover"]
    /\ UNCHANGED <<config, call, peer, lease, sampler, published, observed, runs, backend, feed_updates_url, locked, gc, sup, cancelling>>

\* refresh_index answered 200
FullRefresh(f) ==
    /\ Active(Loop(f, "full")) /\ task[Loop(f, "full")].pc = "refresh"
    /\ task[Loop(f, "full")].index_names \subseteq indexes
    /\ task' = [task EXCEPT ![Loop(f, "full")].pc = "cutover"]
    /\ UNCHANGED <<config, call, peer, lease, sampler, published, observed, runs, backend, kv, locked, gc, sup, cancelling>>

\* a cutover whose remove action names the indexes the listing of this
\* process found in the alias, instead of the pattern of the feed
add_remove_aliases_listed(index_name, feed_unique_id) ==
    (alias \ indexes_matching_feed(task[Loop(feed_unique_id, "full")].indexes_with_alias,
                                   feed_unique_id))
        \cup {index_name}

\* a cutover that adds the new index and forgets the remove action
add_alias_only(index_name, feed_unique_id) == alias \cup {index_name}

\* the alias members after the backend has applied, in one request, the
\* remove of the pattern of the feed and the add of index_name
add_remove_aliases_atomically(index_name, feed_unique_id) ==
    (alias \ remove_pattern_matches(indexes, feed_unique_id)) \cup {index_name}

FullCutover(f) ==
    /\ Active(Loop(f, "full")) /\ task[Loop(f, "full")].pc = "cutover"
    /\ \E index_name \in task[Loop(f, "full")].index_names :
          /\ index_name \in indexes
          /\ alias' = add_remove_aliases_atomically(index_name, f)
    /\ task' = [task EXCEPT ![Loop(f, "full")].pc = "record"]
    /\ UNCHANGED <<config, call, peer, lease, sampler, published, observed, runs, indexes, docs, kv, locked, gc, sup, cancelling>>

\* a record step that stores href, empty when the while loop is left
FullRecord_terminating_href(f) ==
    /\ Active(Loop(f, "full")) /\ task[Loop(f, "full")].pc = "record"
    /\ set_feed_updates_seed_url(f, task[Loop(f, "full")].href)
    /\ SupReturned(Loop(f, "full"))
    /\ recorded' = recorded \cup {f}
    /\ updates_items' = [updates_items EXCEPT ![f] = {}]
    /\ task' = [task EXCEPT ![Loop(f, "full")] = FirstAwait("full", alias)]
    /\ UNCHANGED <<config, call, peer, lease, sampler, published, runs, backend, feed_updates_url,
                   locked, gc, cancelling>>

\* a full ingest that is not called again after it has returned
FullRecord_returning_once(f) ==
    /\ Active(Loop(f, "full")) /\ task[Loop(f, "full")].pc = "record"
    /\ set_feed_updates_seed_url(f, task[Loop(f, "full")].updates_href)
    /\ SupReturned(Loop(f, "full"))
    /\ recorded' = recorded \cup {f}
    /\ updates_items' = [updates_items EXCEPT ![f] = {}]
    /\ task' = [task EXCEPT ![Loop(f, "full")] = IdleFrame]
    /\ UNCHANGED <<config, call, peer, lease, sampler, published, runs, backend, feed_updates_url,
                   locked, gc, cancelling>>

\* set_feed_updates_seed_url done: ingest_feed_full returns to its supervisor
FullRecord(f) ==
    /\ Active(Loop(f, "full")) /\ task[Loop(f, "full")].pc = "record"
    /\ set_feed_updates_seed_url(f, task[Loop(f, "full")].updates_href)
    /\ SupReturned(Loop(f, "full"))
    /\ recorded' = recorded \cup {f}
    /\ updates_items' = [updates_items EXCEPT ![f] = {}]
    /\ task' = [task EXCEPT ![Loop(f, "full")] = FirstAwait("full", alias)]
    /\ UNCHANGED <<config, call, peer, lease, sampler, published, runs, backend, feed_updates_url,
                   locked, gc, cancelling>>

\* ------------------------------------------------------------- updates ingest
\* the full ingest of f is past its init and before the answer to its cutover
FullInFlight(f) ==
    task[Loop(f, "full")].pc \in {"list", "scrub", "acquire", "fetch", "push",
                                  "page_sleep", "refresh", "cutover"}

\* a pass that starts at the seed of the feed whatever the KV store holds
UpdatesGetUrl_from_seed(f) ==
    /\ Active(Loop(f, "updates")) /\ task[Loop(f, "updates")].pc = "get_url"
    /\ get_feed_updates_url(f) # ""
    /\ Started(Loop(f, "updates"))
    /\ task' = [task EXCEPT ![Loop(f, "updates")] =
                  [@ EXCEPT !.pc = "list", !.href = seed]]
    /\ UNCHANGED <<config, call, peer, lease, sampler, published, observed, backend, kv, locked, gc, sup, cancelling>>

\* href = await get_feed_updates_url(...): the pass waits in it while the
\* store holds no url for the feed
UpdatesGetUrl(f) ==
    /\ Active(Loop(f, "updates")) /\ task[Loop(f, "updates")].pc = "get_url"
    /\ get_feed_updates_url(f) # ""
    /\ Started(Loop(f, "updates"))
    /\ task' = [task EXCEPT ![Loop(f, "updates")] =
                  [@ EXCEPT !.pc = "list", !.href = get_feed_updates_url(f)]]
    /\ UNCHANGED <<config, call, peer, lease, sampler, published, observed, backend, kv, locked, gc, sup, cancelling>>

\* get_old_index_names answered: the targets are fixed and the first page entered
UpdatesList(f) ==
    /\ Active(Loop(f, "updates")) /\ task[Loop(f, "updates")].pc = "list"
    /\ EnteredPage(Loop(f, "updates"),
                   [task[Loop(f, "updates")] EXCEPT
                       !.index_names = indexes_matching_feeds(
                           indexes_without_alias \cup indexes_with_alias, {f}),
                       !.indexes_without_alias = indexes_without_alias,
                       !.indexes_with_alias = indexes_with_alias,
                       !.pending = indexes_matching_feeds(indexes_with_alias, {f}),
                       !.updates_href = task[Loop(f, "updates")].href])
    /\ UNCHANGED <<config, call, peer, lease, sampler, published, observed, runs, backend, kv, gc, sup, cancelling>>

\* es_bulk answered 200: next page at once, or the refreshes, or the cursor
UpdatesPushDone(f) ==
    /\ Active(Loop(f, "updates")) /\ task[Loop(f, "updates")].pc = "push"
    /\ docs' = es_bulk(convert_to_bulk_es(task[Loop(f, "updates")].feed_parsed,
                                          task[Loop(f, "updates")].index_names))
    /\ updates_items' =
          IF FullInFlight(f)
          THEN [updates_items EXCEPT
                   ![f] = @ \cup new_activities(task[Loop(f, "updates")].feed_parsed)]
          ELSE updates_items
    /\ IF next_href(f, task[Loop(f, "updates")].href) # ""
       THEN EnteredPage(Loop(f, "updates"),
                        [task[Loop(f, "updates")] EXCEPT
                            !.href = next_href(f, task[Loop(f, "updates")].href),
                            !.updates_href = next_href(f, task[Loop(f, "updates")].href),
                            !.feed_parsed = {}])
       ELSE /\ task' = [task EXCEPT ![Loop(f, "updates")] =
                          [@ EXCEPT !.href = "", !.feed_parsed = {},
                                    !.pc = IF task[Loop(f, "updates")].pending = {}
                                           THEN "set_url" ELSE "refresh"]]
            /\ UNCHANGED locked
    /\ UNCHANGED <<config, call, peer, lease, sampler, published, recorded, runs, indexes, alias, kv, gc, sup, cancelling>>

\* one refresh_index of the live indexes of the listing answered 200
UpdatesRefresh(f) ==
    /\ Active(Loop(f, "updates")) /\ task[Loop(f, "updates")].pc = "refresh"
    /\ \E index_name \in task[Loop(f, "updates")].pending :
          /\ index_name \in indexes
          /\ task' = [task EXCEPT ![Loop(f, "updates")] =
                        [@ EXCEPT !.pending = @ \ {index_name},
                                  !.pc = IF task[Loop(f, "updates")].pending = {index_name}
                                         THEN "set_url" ELSE "refresh"]]
    /\ UNCHANGED <<config, call, peer, lease, sampler, published, observed, runs, backend, kv, locked, gc, sup, cancelling>>

\* a cursor taken from href, empty when the while loop is left
UpdatesSetUrl_terminating_href(f) ==
    /\ Active(Loop(f, "updates")) /\ task[Loop(f, "updates")].pc = "set_url"
    /\ set_feed_updates_url(f, task[Loop(f, "updates")].href)
    /\ task' = [task EXCEPT ![Loop(f, "updates")].pc = "sleep"]
    /\ UNCHANGED <<config, call, peer, lease, sampler, published, observed, runs, backend, feed_updates_seed_url, locked, gc, sup, cancelling>>

UpdatesSetUrl(f) ==
    /\ Active(Loop(f, "updates")) /\ task[Loop(f, "updates")].pc = "set_url"
    /\ set_feed_updates_url(f, task[Loop(f, "updates")].updates_href)
    /\ task' = [task EXCEPT ![Loop(f, "updates")].pc = "sleep"]
    /\ UNCHANGED <<config, call, peer, lease, sampler, published, observed, runs, backend, feed_updates_seed_url, locked, gc, sup, cancelling>>

\* sleep(UPDATES_INTERVAL) is over: ingest_feed_updates returns
UpdatesSleepDone(f) ==
    /\ Active(Loop(f, "updates")) /\ task[Loop(f, "updates")].pc = "sleep"
    /\ SupReturned(Loop(f, "updates"))
    /\ task' = [task EXCEPT ![Loop(f, "updates")] = FirstAwait("updates", alias)]
    /\ UNCHANGED <<config, call, peer, lease, sampler, published, observed, runs, backend, kv, locked, gc, cancelling>>

\* ------------------------------------------------- failures and cancellation
\* the awaits that can raise: requests to the KV store, the backend, the feed
Failable == {"init", "list", "scrub", "fetch", "push", "refresh", "cutover", "record",
             "get_url", "set_url"}

\* an exception in the fetch that leaves the lock locked
Released_never(l) == locked

\* leaving async with feed_lock by an exception releases the lock
Released(l) ==
    IF task[l].pc = "fetch" THEN locked \ {feed_lock(l[1], l[2])} ELSE locked

\* the awaited request of loop l raised: the pass is abandoned
LoopFail(l) ==
    /\ Active(l) /\ task[l].pc \in Failable
    /\ CanFail
    /\ locked' = Released(l)
    /\ SupRaised(l)
    /\ task' = [task EXCEPT ![l] = [IdleFrame EXCEPT !.pc = "failed",
                                                     !.started_with = task[l].started_with,
                                                     !.failed_at = task[l].pc]]
    /\ updates_items' = IF l[2] = "full" THEN [updates_items EXCEPT ![l[1]] = {}]
                                          ELSE updates_items
    /\ UNCHANGED <<config, call, peer, lease, sampler, published, recorded, runs, backend, kv, gc, cancelling>>

\* a supervisor that resumes the pass at the await that failed
LoopRetry_resuming(l) ==
    /\ ~cancelling /\ sup_pc[l] = "sleep"
    /\ SupSleepDone(l)
    /\ task' = [task EXCEPT ![l].pc = task[l].failed_at]
    /\ UNCHANGED <<config, call, peer, lease, sampler, published, observed, runs, backend, kv, locked, gc, cancelling>>

\* the backoff sleep is over: the supervisor calls the coroutine again
LoopRetry(l) ==
    /\ ~cancelling /\ sup_pc[l] = "sleep"
    /\ SupSleepDone(l)
    /\ task' = [task EXCEPT ![l] = FirstAwait(l[2], alias)]
    /\ UNCHANGED <<config, call, peer, lease, sampler, published, observed, runs, backend, kv, locked, gc, cancelling>>

\* SIGINT/SIGTERM: cleanup runs cancel_non_current_tasks, and during its
\* sleep(0) the CancelledError is thrown at the await of every task: each
\* supervisor breaks out of its loop, a lock held around a fetch is released
Cleanup ==
    /\ ~cancelling
    /\ cancelling' = TRUE
    /\ sup_pc' = [s \in DOMAIN sup_pc |-> cancelled_pc(sup_pc[s])]
    /\ locked' = {}
    /\ gc' = [pc |-> "idle", indexes_to_delete |-> {}]
    /\ task' = [l \in Loops |->
                  IF task[l].pc \in {"idle", "failed"}
                  THEN [task[l] EXCEPT !.pc = IF @ = "idle" THEN "idle" ELSE "cancelled"]
                  ELSE [IdleFrame EXCEPT !.pc = "cancelled",
                                         !.started_with = task[l].started_with,
                                         !.failed_at = task[l].pc]]
    /\ UNCHANGED <<config, call, peer, lease, sampler, published, observed, runs, backend, kv, num_exceptions_in_chain, exception_interval,
                   exception_intervals, captured, sup_log>>

Next ==
    \/ GcList \/ GcDelete \/ GcFail \/ GcRetry
    \/ \E f \in feed_unique_ids :
          \/ FullInit(f) \/ FullList(f) \/ FullScrub(f) \/ FullCreate(f)
          \/ FullPushDone(f) \/ FullPageSleepDone(f) \/ FullRefresh(f)
          \/ FullCutover(f) \/ FullRecord(f)
          \/ UpdatesGetUrl(f) \/ UpdatesList(f) \/ UpdatesPushDone(f)
          \/ UpdatesRefresh(f) \/ UpdatesSetUrl(f) \/ UpdatesSleepDone(f)
    \/ \E l \in Loops :
          \/ AcquireLock(l) \/ FetchDone(l)
          \/ LoopFail(l) \/ LoopRetry(l)
    \/ Cleanup

Spec == Init /\ [][Next]_vars

\* the runs of two feeds in which no request fails
NextFeeds ==
    \/ GcList \/ GcDelete
    \/ \E f \in feed_unique_ids :
          \/ FullInit(f) \/ FullList(f) \/ FullScrub(f) \/ FullCreate(f)
          \/ FullPushDone(f) \/ FullPageSleepDone(f) \/ FullRefresh(f)
          \/ FullCutover(f) \/ FullRecord(f)
          \/ UpdatesGetUrl(f) \/ UpdatesList(f) \/ UpdatesPushDone(f)
          \/ UpdatesRefresh(f) \/ UpdatesSetUrl(f) \/ UpdatesSleepDone(f)
    \/ \E l \in Loops : AcquireLock(l) \/ FetchDone(l)
    \/ Cleanup

SpecFeeds == InitFeeds /\ [][NextFeeds]_vars

\* two configured feeds of one page each, the unique id of the second being
\* the unique id of the first followed by an underscore
InitOverlap ==
    /\ feed_endpoints = (<<"a">> :> [pages |-> 1]) @@ (<<"a", "_">> :> [pages |-> 1])
    /\ run_budget = MaxRuns
    /\ InitEngine
    /\ InitSupervisors
    /\ PeerOff /\ LeaseOff /\ SamplerOff /\ CallOff

SpecOverlap == InitOverlap /\ [][NextFeeds]_vars

\* ------------------------------------------------ a feed that gets new activities
\* the publisher of feed f adds an activity to the last page of its chain
Publish(f) ==
    /\ published[f] < MaxPublish
    /\ published' = [published EXCEPT ![f] = @ + 1]
    /\ UNCHANGED <<config, call, peer, lease, sampler, observed, runs, backend, kv, locked, gc, task, sup, cancelling>>

\* one configured feed of two pages, a bounded number of passes
InitGrowing ==
    /\ feed_endpoints = [f \in {<<"F1">>} |-> [pages |-> 2]]
    /\ run_budget = MaxRuns
    /\ InitEngine
    /\ InitSupervisors
    /\ PeerOff /\ LeaseOff /\ SamplerOff /\ CallOff

\* the runs in which no request fails and the feed gets new activities
NextGrowing ==
    \/ GcList \/ GcDelete
    \/ \E f \in feed_unique_ids :
          \/ FullInit(f) \/ FullList(f) \/ FullScrub(f) \/ FullCreate(f)
          \/ FullPushDone(f) \/ FullPageSleepDone(f) \/ FullRefresh(f)
          \/ FullCutover(f) \/ FullRecord(f)
          \/ UpdatesGetUrl(f) \/ UpdatesList(f) \/ UpdatesPushDone(f)
          \/ UpdatesRefresh(f) \/ UpdatesSetUrl(f) \/ UpdatesSleepDone(f)
          \/ Publish(f)
    \/ \E l \in Loops : AcquireLock(l) \/ FetchDone(l)
    \/ Cleanup

SpecGrowing == InitGrowing /\ [][NextGrowing]_vars

\* ------------------------------------- two processes that both hold the lease
\* ingest_feed_full of feed PeerFeed as a second process runs it against the
\* same backend and KV store, while the lease is held twice. It shares no
\* asyncio.Lock with the first process; a page (fetch, bulk, sleep) is one step
PeerFeed == <<"F1">>

PeerInit ==
    /\ peer.pc = "init" /\ peer.runs < MaxPeerRuns
    /\ set_feed_updates_seed_url_init(PeerFeed)
    /\ peer' = PeerFrame("list", peer.runs + 1)
    /\ UNCHANGED <<config, call, lease, sampler, published, observed, runs, backend, feed_updates_url,
                   locked, gc, task, sup, cancelling>>

PeerList ==
    /\ peer.pc = "list"
    /\ peer' = [peer EXCEPT !.pc = "scrub",
                            !.pending = indexes_matching_feeds(indexes_without_alias, {PeerFeed})]
    /\ UNCHANGED <<config, call, lease, sampler, published, observed, runs, backend, kv,
                   locked, gc, task, sup, cancelling>>

PeerScrub ==
    /\ peer.pc = "scrub"
    /\ \E index_name \in peer.pending :
          /\ index_name \in indexes
          /\ indexes' = indexes \ {index_name}
          /\ alias' = alias \ {index_name}
          /\ docs' = deleted_index(index_name)
          /\ peer' = [peer EXCEPT !.pending = @ \ {index_name}]
    /\ UNCHANGED <<config, call, lease, sampler, published, observed, runs, kv,
                   locked, gc, task, sup, cancelling>>

PeerCreate ==
    /\ peer.pc = "scrub" /\ peer.pending = {}
    /\ \E unique \in {UniquePool[peer.runs]} :
          LET index_name == get_new_index_name(PeerFeed, "D1", "T2", unique) IN
          /\ index_name \notin indexes
          /\ indexes' = indexes \cup {index_name}
          /\ docs' = created_index(index_name)
          /\ peer' = [peer EXCEPT !.pc = "page", !.index_name = index_name,
                                  !.href = seed, !.updates_href = seed]
    /\ UNCHANGED <<config, call, lease, sampler, published, observed, runs, alias, kv,
                   locked, gc, task, sup, cancelling>>

PeerPage ==
    /\ peer.pc = "page"
    /\ docs' = es_bulk(convert_to_bulk_es(feed_contents(PeerFeed, peer.href),
                                          {peer.index_name}))
    /\ peer' = IF next_href(PeerFeed, peer.href) # ""
               THEN [peer EXCEPT !.href = next_href(PeerFeed, peer.href),
                                 !.updates_href = next_href(PeerFeed, peer.href)]
               ELSE [peer EXCEPT !.pc = "refresh", !.href = ""]
    /\ UNCHANGED <<config, call, lease, sampler, published, observed, runs, indexes, alias, kv,
                   locked, gc, task, sup, cancelling>>

PeerRefresh ==
    /\ peer.pc = "refresh"
    /\ peer.index_name \in indexes
    /\ peer' = [peer EXCEPT !.pc = "cutover"]
    /\ UNCHANGED <<config, call, lease, sampler, published, observed, runs, backend, kv,
                   locked, gc, task, sup, cancelling>>

PeerCutover ==
    /\ peer.pc = "cutover"
    /\ peer.index_name \in indexes
    /\ alias' = add_remove_aliases_atomically(peer.index_name, PeerFeed)
    /\ peer' = [peer EXCEPT !.pc = "record"]
    /\ UNCHANGED <<config, call, lease, sampler, published, observed, runs, indexes, docs, kv,
                   locked, gc, task, sup, cancelling>>

PeerRecord ==
    /\ peer.pc = "record"
    /\ set_feed_updates_seed_url(PeerFeed, peer.updates_href)
    /\ recorded' = recorded \cup {PeerFeed}
    /\ peer' = PeerFrame("init", peer.runs)
    /\ UNCHANGED <<config, call, lease, sampler, published, updates_items, runs, backend,
                   feed_updates_url, locked, gc, task, sup, cancelling>>

\* a request of the second process is answered 404 because the first process
\* has deleted the index it names: the pass is abandoned and started again
PeerFail ==
    /\ \/ peer.pc = "scrub" /\ \E index_name \in peer.pending : index_name \notin indexes
       \/ peer.pc \in {"refresh", "cutover"} /\ peer.index_name \notin indexes
    /\ peer' = PeerFrame("init", peer.runs)
    /\ UNCHANGED <<config, call, lease, sampler, published, observed, runs, backend, kv,
                   locked, gc, task, sup, cancelling>>

InitPeers ==
    /\ feed_endpoints = [f \in {PeerFeed} |-> [pages |-> 1]]
    /\ run_budget = MaxPeerRuns
    /\ InitEngine
    /\ InitSupervisors
    /\ peer = PeerFrame("init", 0)
    /\ LeaseOff /\ SamplerOff /\ CallOff

NextPeers ==
    \/ GcList \/ GcDelete
    \/ \E f \in feed_unique_ids :
          \/ FullInit(f) \/ FullList(f) \/ FullScrub(f) \/ FullCreate(f)
          \/ FullPushDone(f) \/ FullPageSleepDone(f) \/ FullRefresh(f)
          \/ FullCutover(f) \/ FullRecord(f)
          \/ UpdatesGetUrl(f) \/ UpdatesList(f) \/ UpdatesPushDone(f)
          \/ UpdatesRefresh(f) \/ UpdatesSetUrl(f) \/ UpdatesSleepDone(f)
    \/ \E l \in Loops :
          \/ AcquireLock(l) \/ FetchDone(l)
          \/ LoopFail(l) \/ LoopRetry(l)
    \/ PeerInit \/ PeerList \/ PeerScrub \/ PeerCreate \/ PeerPage
    \/ PeerRefresh \/ PeerCutover \/ PeerRecord \/ PeerFail
    \/ Cleanup

SpecPeers == InitPeers /\ [][NextPeers]_vars

\* ------------------------------------------- the supervisor with any coroutine
\* async_repeat_until_cancelled around a coroutine that returns, raises or is
\* cancelled as it likes; every event of the supervisor is logged
Schedules == {EXCEPTION_INTERVALS, <<5>>, <<3, 1>>}

InitSup ==
    /\ feed_endpoints = [f \in {} |-> [pages |-> 0]]
    /\ run_budget = 0
    /\ runs = 0
    /\ indexes = {} /\ alias = {}
    /\ docs = [index_name \in {} |-> {}]
    /\ published = [f \in {} |-> 0]
    /\ recorded = {}
    /\ updates_items = [f \in {} |-> {}]
    /\ feed_updates_seed_url = [f \in {} |-> ABSENT]
    /\ feed_updates_url = [f \in {} |-> ABSENT]
    /\ locked = {}
    /\ gc = [pc |-> "idle", indexes_to_delete |-> {}]
    /\ task = [l \in {} |-> IdleFrame]
    /\ cancelling = FALSE
    /\ captured = 0
    /\ sup_pc = [s \in {PROBE} |-> "task"]
    /\ num_exceptions_in_chain = [s \in {PROBE} |-> 0]
    /\ exception_interval = [s \in {PROBE} |-> 0]
    /\ \E schedule \in Schedules : exception_intervals = [s \in {PROBE} |-> schedule]
    /\ sup_log = <<Event("run", 0)>>
    /\ PeerOff /\ LeaseOff /\ SamplerOff /\ CallOff

engine == <<config, call, peer, lease, sampler, published, observed, runs, backend, kv, locked, gc, task>>

ProbeReturns ==
    /\ ~cancelling /\ sup_pc[PROBE] = "task" /\ Len(sup_log) < MaxLog
    /\ SupReturned(PROBE)
    /\ UNCHANGED <<engine, cancelling>>

ProbeRaises ==
    /\ ~cancelling /\ sup_pc[PROBE] = "task" /\ Len(sup_log) < MaxLog
    /\ SupRaised(PROBE)
    /\ UNCHANGED <<engine, cancelling>>

ProbeSleepDone ==
    /\ ~cancelling /\ sup_pc[PROBE] = "sleep"
    /\ SupSleepDone(PROBE)
    /\ UNCHANGED <<engine, cancelling>>

\* task.cancel() on the task of the supervisor, suspended at one of its awaits
ProbeCancel ==
    /\ ~cancelling /\ sup_pc[PROBE] \in {"task", "sleep"}
    /\ cancelling' = TRUE
    /\ sup_log' = Logged(PROBE, <<Event("cancel", 0)>>)
    /\ UNCHANGED <<engine, sup_pc, num_exceptions_in_chain, exception_interval,
                   exception_intervals, captured>>

\* the CancelledError is thrown at that await
ProbeCancelled ==
    /\ cancelling /\ sup_pc[PROBE] \in {"task", "sleep"}
    /\ SupCancelled(PROBE)
    /\ UNCHANGED <<engine, cancelling>>

NextSup ==
    \/ ProbeReturns \/ ProbeRaises \/ ProbeSleepDone \/ ProbeCancel \/ ProbeCancelled

SpecSup == InitSup /\ [][NextSup]_vars

\* ------------------------------------------------- leader election (the lease)
\* run_outgoing_application in NumProcs processes. acquire_and_keep_lock blocks
\* until SET lock NX EX ttl succeeds and then keeps a renewer task that
\* re-sets the time to live every ttl/2; a failed attempt sleeps for the
\* interval of the backoff schedule. Time passes in ticks; a renewer that is
\* due runs before the next tick.
Procs == 1..NumProcs

EngineOff ==
    /\ feed_endpoints = [f \in {} |-> [pages |-> 0]]
    /\ run_budget = 0
    /\ runs = 0
    /\ indexes = {} /\ alias = {}
    /\ docs = [index_name \in {} |-> {}]
    /\ published = [f \in {} |-> 0]
    /\ recorded = {}
    /\ updates_items = [f \in {} |-> {}]
    /\ feed_updates_seed_url = [f \in {} |-> ABSENT]
    /\ feed_updates_url = [f \in {} |-> ABSENT]
    /\ locked = {}
    /\ gc = [pc |-> "idle", indexes_to_delete |-> {}]
    /\ task = [l \in {} |-> IdleFrame]
    /\ cancelling = FALSE
    /\ captured = 0

SupOff ==
    /\ sup_pc = [s \in {} |-> "task"]
    /\ num_exceptions_in_chain = [s \in {} |-> 0]
    /\ exception_interval = [s \in {} |-> 0]
    /\ exception_intervals = [s \in {} |-> EXCEPTION_INTERVALS]
    /\ sup_log = <<>>

\* a process at the await of acquire_and_keep_lock
ProcFrame ==
    [pc |-> "acquire", failures |-> 0, interval |-> 0, engine |-> FALSE,
     sampler |-> FALSE, renewer |-> FALSE, renew_in |-> 0, renewed |-> FALSE,
     acted |-> "none"]

InitLease ==
    /\ EngineOff /\ SupOff /\ PeerOff /\ SamplerOff /\ CallOff
    /\ proc = [p \in Procs |-> ProcFrame]
    /\ lock = [ttl |-> 0, by |-> 0]

\* a SET without NX: it succeeds whether or not the key exists
set_succeeds == TRUE

\* SET lock NX EX ttl succeeds exactly when the key does not exist
set_nx_succeeds == lock.ttl = 0

\* the sleep after the failed attempt number failures + 1 in a row
backoff_interval(failures) ==
    EXCEPTION_INTERVALS[Min(failures, Len(EXCEPTION_INTERVALS) - 1) + 1]

\* acquire_and_keep_lock returns: the key is set and the renewer started
ProcAcquired(p) ==
    /\ proc[p].pc = "acquire"
    /\ set_nx_succeeds
    /\ lock' = [ttl |-> TtlTicks, by |-> p]
    /\ proc' = [proc EXCEPT ![p] = [@ EXCEPT !.pc = "create_outgoing",
                                             !.renewer = TRUE,
                                             !.renew_in = TtlTicks \div 2]]
    /\ UNCHANGED <<config, call, peer, sampler, published, observed, runs, backend, kv,
                   locked, gc, task, sup, cancelling>>

\* the key exists: the attempt fails and the process sleeps
ProcAcquireFailed(p) ==
    /\ proc[p].pc = "acquire"
    /\ ~set_nx_succeeds
    /\ proc' = [proc EXCEPT ![p] =
                  [@ EXCEPT !.pc = "backoff",
                            !.interval = backoff_interval(proc[p].failures),
                            !.failures = Min(proc[p].failures + 1,
                                             Len(EXCEPTION_INTERVALS))]]
    /\ UNCHANGED <<config, call, peer, lock, sampler, published, observed, runs, backend, kv,
                   locked, gc, task, sup, cancelling>>

ProcBackoffDone(p) ==
    /\ proc[p].pc = "backoff"
    /\ proc' = [proc EXCEPT ![p].pc = "acquire"]
    /\ UNCHANGED <<config, call, peer, lock, sampler, published, observed, runs, backend, kv,
                   locked, gc, task, sup, cancelling>>

\* an engine that is started while the lock is still awaited
CreateOutgoing_before_lock(p) ==
    /\ proc[p].pc \in {"acquire", "create_outgoing"}
    /\ proc' = [proc EXCEPT ![p] =
                  [@ EXCEPT !.pc = IF proc[p].pc = "acquire" THEN "acquire"
                                   ELSE "create_metrics",
                            !.engine = TRUE]]
    /\ UNCHANGED <<config, call, peer, lock, sampler, published, observed, runs, backend, kv,
                   locked, gc, task, sup, cancelling>>

\* create_outgoing_application: the task of the ingestion engine is created
CreateOutgoing(p) ==
    /\ proc[p].pc = "create_outgoing"
    /\ proc' = [proc EXCEPT ![p] = [@ EXCEPT !.pc = "create_metrics", !.engine = TRUE]]
    /\ UNCHANGED <<config, call, peer, lock, sampler, published, observed, runs, backend, kv,
                   locked, gc, task, sup, cancelling>>

\* create_metrics_application: the task of the metrics sampler is created
CreateMetrics(p) ==
    /\ proc[p].pc = "create_metrics"
    /\ proc' = [proc EXCEPT ![p] = [@ EXCEPT !.pc = "running", !.sampler = TRUE]]
    /\ UNCHANGED <<config, call, peer, lock, sampler, published, observed, runs, backend, kv,
                   locked, gc, task, sup, cancelling>>

\* any step of the ingestion engine of process p
EngineAct(p) ==
    /\ proc[p].engine
    /\ proc' = [proc EXCEPT ![p].acted = "engine"]
    /\ UNCHANGED <<config, call, peer, lock, sampler, published, observed, runs, backend, kv,
                   locked, gc, task, sup, cancelling>>

\* any step of the metrics sampler of process p
SamplerAct(p) ==
    /\ proc[p].sampler
    /\ proc' = [proc EXCEPT ![p].acted = "sampler"]
    /\ UNCHANGED <<config, call, peer, lock, sampler, published, observed, runs, backend, kv,
                   locked, gc, task, sup, cancelling>>

\* the renewer of p re-sets the time to live of the key, if it still exists
Renew(p) ==
    /\ proc[p].renewer /\ proc[p].renew_in = 0
    /\ lock' = IF lock.ttl > 0 THEN [lock EXCEPT !.ttl = TtlTicks] ELSE lock
    /\ proc' = [proc EXCEPT ![p] = [@ EXCEPT !.renew_in = TtlTicks \div 2,
                                             !.renewed = TRUE]]
    /\ UNCHANGED <<config, call, peer, sampler, published, observed, runs, backend, kv,
                   locked, gc, task, sup, cancelling>>

\* one tick of time: the key gets older and expires at 0
Tick ==
    /\ \A p \in Procs : proc[p].renewer => proc[p].renew_in > 0
    /\ lock.ttl > 0
    /\ lock' = IF lock.ttl = 1 THEN [ttl |-> 0, by |-> 0]
               ELSE [lock EXCEPT !.ttl = lock.ttl - 1]
    /\ proc' = [p \in Procs |->
                  IF proc[p].renewer THEN [proc[p] EXCEPT !.renew_in = @ - 1]
                  ELSE proc[p]]
    /\ UNCHANGED <<config, call, peer, sampler, published, observed, runs, backend, kv,
                   locked, gc, task, sup, cancelling>>

\* a cleanup that leaves the renewer task running
Shutdown_keeping_renewer(p) ==
    /\ proc[p].pc = "running"
    /\ proc' = [proc EXCEPT ![p] = [@ EXCEPT !.pc = "closed", !.engine = FALSE,
                                             !.sampler = FALSE]]
    /\ UNCHANGED <<config, call, peer, lock, sampler, published, observed, runs, backend, kv,
                   locked, gc, task, sup, cancelling>>

\* SIGINT or SIGTERM once run_outgoing_application has returned: cleanup
\* cancels every task and closes the connections; the key is left alone
Shutdown(p) ==
    /\ proc[p].pc = "running"
    /\ proc' = [proc EXCEPT ![p] = [@ EXCEPT !.pc = "closed", !.engine = FALSE,
                                             !.sampler = FALSE, !.renewer = FALSE,
                                             !.renew_in = 0]]
    /\ UNCHANGED <<config, call, peer, lock, sampler, published, observed, runs, backend, kv,
                   locked, gc, task, sup, cancelling>>

NextLease ==
    \/ \E p \in Procs :
          \/ ProcAcquired(p) \/ ProcAcquireFailed(p) \/ ProcBackoffDone(p)
          \/ CreateOutgoing(p) \/ CreateMetrics(p)
          \/ EngineAct(p) \/ SamplerAct(p)
          \/ Renew(p) \/ Shutdown(p)
    \/ Tick

SpecLease == InitLease /\ [][NextLease]_vars

\* time passes, a renewer that is due runs, and a process that waits for the
\* lock keeps on trying
SpecLeaseFair ==
    /\ SpecLease
    /\ WF_vars(Tick)
    /\ \A p \in Procs :
          /\ WF_vars(Renew(p))
          /\ WF_vars(ProcAcquired(p) \/ ProcAcquireFailed(p))
          /\ WF_vars(ProcBackoffDone(p))

\* ------------------------------------------------------------ metrics sampler
\* poll_metrics under async_repeat_until_cancelled. A gauge is modelled by the
\* round in which it was last set (0: never); every request of a round is
\* answered with one of Statuses. statuses and before are not locals: they
\* record the answers of the round and the gauges, the snapshot and the
\* number of reported exceptions when the round started
SAMPLER == <<<<>>, "metrics">>

Statuses == {200, 503, 500}

FeedOrder == <<<<"F1">>, <<"F2">>>>

\* feed_unique_ids(feed_endpoints), in the order of the configuration
SamplerFeeds == SelectSeq(FeedOrder, LAMBDA f : f \in feed_unique_ids)

FeedRequests == {<<SamplerFeeds[i], kind>> : i \in 1..Len(SamplerFeeds),
                                             kind \in {"nonsearchable", "total"}}

\* a request or a gauge that is about all the feeds
Total(kind) == <<<<>>, kind>>

\* the requests to a _count endpoint
CountRequests == {Total("searchable"), Total("nonsearchable")} \cup FeedRequests

Requests == CountRequests \cup {Total("verification")}

Labels == {Total("searchable"), Total("nonsearchable"), Total("verification")}
              \cup {<<SamplerFeeds[i], kind>> : i \in 1..Len(SamplerFeeds),
                                               kind \in {"searchable", "nonsearchable"}}

\* poll_metrics called: it runs up to the await of es_searchable_total
PollFrame(round) ==
    [pc |-> "searchable", round |-> round, remaining |-> SamplerFeeds,
     statuses |-> [request \in Requests |-> 0], found |-> FALSE,
     before |-> [metrics |-> metrics, redis_metrics |-> redis_metrics,
                 captured |-> captured]]

InitSampler ==
    /\ feed_endpoints = [f \in {FeedOrder[i] : i \in 1..Len(FeedOrder)} |->
                            [pages |-> 1]]
    /\ run_budget = 0
    /\ InitEngine
    /\ sup_pc = [s \in {SAMPLER} |-> "task"]
    /\ num_exceptions_in_chain = [s \in {SAMPLER} |-> 0]
    /\ exception_interval = [s \in {SAMPLER} |-> 0]
    /\ exception_intervals = [s \in {SAMPLER} |-> EXCEPTION_INTERVALS]
    /\ sup_log = <<>>
    /\ PeerOff /\ LeaseOff /\ CallOff
    /\ metrics = [label \in Labels |-> 0]
    /\ redis_metrics = NoSnapshot
    /\ poll = [pc |-> "searchable", round |-> 1, remaining |-> SamplerFeeds,
               statuses |-> [request \in Requests |-> 0], found |-> FALSE,
               before |-> [metrics |-> [label \in Labels |-> 0],
                           redis_metrics |-> NoSnapshot, captured |-> 0]]

\* a helper that raises on every status outside 200..299
es_request_non_2xx_exception(status) ==
    IF status \notin 200..299 THEN "exception" ELSE "ok"

es_request_non_200_exception(status) ==
    IF status # 200 THEN "exception" ELSE "ok"

\* a 503 that is raised like any other status that is not 200
es_maybe_unvailable_metrics_strict(status) ==
    IF status # 200 THEN "exception" ELSE "ok"

es_maybe_unvailable_metrics(status) ==
    IF status = 503 THEN "unavailable"
    ELSE IF status # 200 THEN "exception"
    ELSE "ok"

es_searchable_total(status) == es_request_non_200_exception(status)

es_nonsearchable_total(status) == es_maybe_unvailable_metrics(status)

\* the answer to the search for the latest verification activity: without a
\* hit the value is missing from the result
es_min_verification_age(status, found) ==
    IF es_request_non_200_exception(status) = "exception" THEN "exception"
    ELSE IF ~found THEN "unavailable"
    ELSE "ok"

\* metric.labels(*labels).set(value)
set_metric(labels) ==
    [label \in Labels |-> IF label \in labels THEN poll.round ELSE metrics[label]]

PollActive(pc) == ~cancelling /\ sup_pc[SAMPLER] = "task" /\ poll.pc = pc

\* the request was answered with status and poll_metrics goes on at pc
PollAnswered(request, status, pc) ==
    poll' = [poll EXCEPT !.pc = pc, !.statuses[request] = status]

\* an exception leaves poll_metrics: the supervisor reports it and sleeps
PollRaised(request, status) ==
    /\ CanFail
    /\ SupRaised(SAMPLER)
    /\ PollAnswered(request, status, "failed")
    /\ UNCHANGED <<metrics, redis_metrics>>

PollSearchable ==
    /\ PollActive("searchable")
    /\ \E status \in Statuses :
          IF es_searchable_total(status) = "ok"
          THEN /\ metrics' = set_metric({Total("searchable")})
               /\ PollAnswered(Total("searchable"), status, "nonsearchable")
               /\ UNCHANGED <<redis_metrics, sup>>
          ELSE PollRaised(Total("searchable"), status)
    /\ UNCHANGED <<config, call, peer, lease, published, observed, runs, backend, kv,
                   locked, gc, task, cancelling>>

\* set_metric_if_can around es_nonsearchable_total
PollNonsearchable ==
    /\ PollActive("nonsearchable")
    /\ \E status \in Statuses :
          IF es_nonsearchable_total(status) = "exception"
          THEN PollRaised(Total("nonsearchable"), status)
          ELSE /\ metrics' = IF es_nonsearchable_total(status) = "ok"
                             THEN set_metric({Total("nonsearchable")}) ELSE metrics
               /\ PollAnswered(Total("nonsearchable"), status, "verification")
               /\ UNCHANGED <<redis_metrics, sup>>
    /\ UNCHANGED <<config, call, peer, lease, published, observed, runs, backend, kv,
                   locked, gc, task, cancelling>>

\* where poll_metrics goes on when feeds are still to be sampled
AfterFeeds(remaining) == IF remaining = <<>> THEN "set_metrics" ELSE "feed_nonsearchable"

\* set_metric_if_can around es_min_verification_age
PollVerification ==
    /\ PollActive("verification")
    /\ \E status \in Statuses, found \in BOOLEAN :
          IF es_min_verification_age(status, found) = "exception"
          THEN PollRaised(Total("verification"), status)
          ELSE /\ metrics' = IF es_min_verification_age(status, found) = "ok"
                             THEN set_metric({Total("verification")}) ELSE metrics
               /\ poll' = [poll EXCEPT !.pc = AfterFeeds(poll.remaining),
                                       !.statuses[Total("verification")] = status,
                                       !.found = found]
               /\ UNCHANGED <<redis_metrics, sup>>
    /\ UNCHANGED <<config, call, peer, lease, published, observed, runs, backend, kv,
                   locked, gc, task, cancelling>>

\* es_feed_activities_total, first request: the nonsearchable count of the feed
PollFeedNonsearchable ==
    /\ PollActive("feed_nonsearchable")
    /\ \E status \in Statuses :
          LET request == <<Head(poll.remaining), "nonsearchable">> IN
          CASE es_maybe_unvailable_metrics(status) = "exception" ->
                  PollRaised(request, status)
            [] es_maybe_unvailable_metrics(status) = "unavailable" ->
                  /\ poll' = [poll EXCEPT !.pc = AfterFeeds(Tail(poll.remaining)),
                                          !.remaining = Tail(poll.remaining),
                                          !.statuses[request] = status]
                  /\ UNCHANGED <<metrics, redis_metrics, sup>>
            [] OTHER ->
                  /\ PollAnswered(request, status, "feed_total")
                  /\ UNCHANGED <<metrics, redis_metrics, sup>>
    /\ UNCHANGED <<config, call, peer, lease, published, observed, runs, backend, kv,
                   locked, gc, task, cancelling>>

\* es_feed_activities_total, second request: the total count of the feed;
\* both gauges of the feed are set when it returns
PollFeedTotal ==
    /\ PollActive("feed_total")
    /\ \E status \in Statuses :
          LET feed_id == Head(poll.remaining)
              request == <<Head(poll.remaining), "total">> IN
          IF es_maybe_unvailable_metrics(status) = "exception"
          THEN PollRaised(request, status)
          ELSE /\ metrics' = IF es_maybe_unvailable_metrics(status) = "ok"
                             THEN set_metric({<<feed_id, "searchable">>,
                                              <<feed_id, "nonsearchable">>})
                             ELSE metrics
               /\ poll' = [poll EXCEPT !.pc = AfterFeeds(Tail(poll.remaining)),
                                       !.remaining = Tail(poll.remaining),
                                       !.statuses[request] = status]
               /\ UNCHANGED <<redis_metrics, sup>>
    /\ UNCHANGED <<config, call, peer, lease, published, observed, runs, backend, kv,
                   locked, gc, task, cancelling>>

\* redis_set_metrics: the serialised registry is stored under 'metrics'
PollSetMetrics ==
    /\ PollActive("set_metrics")
    /\ redis_metrics' = metrics
    /\ poll' = [poll EXCEPT !.pc = "sleep"]
    /\ UNCHANGED <<config, call, peer, lease, metrics, published, observed, runs, backend, kv,
                   locked, gc, task, sup, cancelling>>

\* a sampler that takes the lock of every feed when it starts a round
PollSleepDone_taking_locks ==
    /\ PollActive("sleep")
    /\ poll.round < MaxRounds
    /\ SupReturned(SAMPLER)
    /\ poll' = PollFrame(poll.round + 1)
    /\ locked' = {feed_lock(f, "full") : f \in feed_unique_ids}
    /\ UNCHANGED <<config, call, peer, lease, metrics, redis_metrics, published, observed, runs,
                   backend, kv, gc, task, cancelling>>

\* sleep(METRICS_INTERVAL) is over: poll_metrics returns and is called again
PollSleepDone ==
    /\ PollActive("sleep")
    /\ poll.round < MaxRounds
    /\ SupReturned(SAMPLER)
    /\ poll' = PollFrame(poll.round + 1)
    /\ UNCHANGED <<config, call, peer, lease, metrics, redis_metrics, published, observed, runs,
                   backend, kv, locked, gc, task, cancelling>>

\* the backoff sleep of the supervisor is over: poll_metrics is called again
PollRetry ==
    /\ ~cancelling /\ sup_pc[SAMPLER] = "sleep"
    /\ poll.round < MaxRounds
    /\ SupSleepDone(SAMPLER)
    /\ poll' = PollFrame(poll.round + 1)
    /\ UNCHANGED <<config, call, peer, lease, metrics, redis_metrics, published, observed, runs,
                   backend, kv, locked, gc, task, cancelling>>

NextSampler ==
    \/ PollSearchable \/ PollNonsearchable \/ PollVerification
    \/ PollFeedNonsearchable \/ PollFeedTotal
    \/ PollSetMetrics \/ PollSleepDone \/ PollRetry

SpecSampler == InitSampler /\ [][NextSampler]_vars

\* ----------------------------------------- the engine and the sampler together
\* what run_outgoing_application leaves on the event loop: the task of the
\* outer ingester and the task of the sampler, each under its supervisor.
\* No request of the engine fails here; a request of the sampler may
InitTogether ==
    /\ feed_endpoints = [f \in {FeedOrder[1]} |-> [pages |-> 1]]
    /\ run_budget = Cardinality(Loops)
    /\ InitEngine
    /\ sup_pc = [s \in Loops \cup {OUTER, SAMPLER} |->
                    IF s \in Loops THEN "unstarted" ELSE "task"]
    /\ num_exceptions_in_chain = [s \in Loops \cup {OUTER, SAMPLER} |-> 0]
    /\ exception_interval = [s \in Loops \cup {OUTER, SAMPLER} |-> 0]
    /\ exception_intervals = [s \in Loops \cup {OUTER, SAMPLER} |-> EXCEPTION_INTERVALS]
    /\ sup_log = <<>>
    /\ PeerOff /\ LeaseOff /\ CallOff
    /\ metrics = [label \in Labels |-> 0]
    /\ redis_metrics = NoSnapshot
    /\ poll = [pc |-> "searchable", round |-> 1, remaining |-> SamplerFeeds,
               statuses |-> [request \in Requests |-> 0], found |-> FALSE,
               before |-> [metrics |-> [label \in Labels |-> 0],
                           redis_metrics |-> NoSnapshot, captured |-> 0]]

\* a step of loop l: of ingest_feed_full or of ingest_feed_updates of its feed
LoopStep(l) ==
    \/ /\ l[2] = "full"
       /\ \/ FullInit(l[1]) \/ FullList(l[1]) \/ FullScrub(l[1]) \/ FullCreate(l[1])
          \/ FullPushDone(l[1]) \/ FullPageSleepDone(l[1]) \/ FullRefresh(l[1])
          \/ FullCutover(l[1]) \/ FullRecord(l[1])
    \/ /\ l[2] = "updates"
       /\ \/ UpdatesGetUrl(l[1]) \/ UpdatesList(l[1]) \/ UpdatesPushDone(l[1])
          \/ UpdatesRefresh(l[1]) \/ UpdatesSetUrl(l[1]) \/ UpdatesSleepDone(l[1])
    \/ AcquireLock(l) \/ FetchDone(l)

NextTogether ==
    \/ GcList \/ GcDelete
    \/ \E l \in Loops : LoopStep(l)
    \/ NextSampler

SpecTogether == InitTogether /\ [][NextTogether]_vars

\* ------------------------------------------------------------------ shutdown
\* the task that runs cleanup once SIGINT or SIGTERM has arrived: "handler"
\* while the signal handler waits, "close" after cancel_non_current_tasks,
\* "stopped" after the KV and HTTP clients are closed and the loop stopped
CLEANUP == <<<<>>, "cleanup">>

\* one feed of one page; one pass of one of its loops is followed per behaviour
InitShutdown ==
    /\ feed_endpoints = [f \in {FeedOrder[1]} |-> [pages |-> 1]]
    /\ run_budget = 1
    /\ InitEngine
    /\ sup_pc = [s \in Loops \cup {OUTER, SAMPLER, CLEANUP} |->
                    IF s \in Loops THEN "unstarted"
                    ELSE IF s = CLEANUP THEN "handler" ELSE "task"]
    /\ num_exceptions_in_chain = [s \in Loops \cup {OUTER, SAMPLER} |-> 0]
    /\ exception_interval = [s \in Loops \cup {OUTER, SAMPLER} |-> 0]
    /\ exception_intervals = [s \in Loops \cup {OUTER, SAMPLER} |-> EXCEPTION_INTERVALS]
    /\ sup_log = <<>>
    /\ PeerOff /\ LeaseOff /\ CallOff
    /\ metrics = [label \in Labels |-> 0]
    /\ redis_metrics = NoSnapshot
    /\ poll = [pc |-> "searchable", round |-> 1, remaining |-> SamplerFeeds,
               statuses |-> [request \in Requests |-> 0], found |-> FALSE,
               before |-> [metrics |-> [label \in Labels |-> 0],
                           redis_metrics |-> NoSnapshot, captured |-> 0]]

\* cleanup after cancel_non_current_tasks: the transport, the KV client and
\* the HTTP session are closed, and the event loop is stopped
CloseClients ==
    /\ cancelling /\ sup_pc[CLEANUP] = "close"
    /\ sup_pc' = [sup_pc EXCEPT ![CLEANUP] = "stopped"]
    /\ UNCHANGED <<config, call, peer, lease, sampler, published, observed, runs, backend, kv,
                   locked, gc, task, cancelling, num_exceptions_in_chain,
                   exception_interval, exception_intervals, captured, sup_log>>

NextShutdown ==
    \/ GcList \/ GcDelete
    \/ \E l \in Loops : LoopStep(l)
    \/ NextSampler
    \/ Cleanup
    \/ CloseClients

SpecShutdown == InitShutdown /\ [][NextShutdown]_vars

\* ------------------------------------------------- the engine left to run
\* the loops of one feed with a chain of NumPages pages, run without end: no
\* request fails and nothing is cancelled
PeriodicFeed == <<"F1">>

PeriodicLoops == {Loop(PeriodicFeed, t) : t \in {"full", "updates"}}

NextPeriodic ==
    \/ GcList \/ GcDelete
    \/ \E l \in Loops : LoopStep(l)

SpecPeriodic == Init /\ [][NextPeriodic]_vars

\* the event loop runs every task that is ready: a request that was sent is
\* answered and a sleep ends. asyncio.Lock wakes its waiters in the order in
\* which they came, so a loop that waits for the lock of its feed gets it
SpecPeriodicFair ==
    /\ SpecPeriodic
    /\ WF_vars(GcList \/ GcDelete)
    /\ \A l \in PeriodicLoops :
          /\ WF_vars(LoopStep(l))
          /\ SF_vars(AcquireLock(l))

\* ------------------------------------------------- a request and its status
\* one request of the engine, answered with any of ResponseStatuses: the
\* helper that sent it returns the response or raises
EngineRequests == {"list", "delete", "create", "refresh", "bulk", "alias_flip", "fetch"}

ResponseStatuses == {200, 201, 202, 204, 206, 301, 304, 400, 401, 404, 409, 429, 500, 503}

\* get_feed_contents: the body of the page, or an exception
get_feed_contents(status) ==
    IF status # 200 THEN "exception" ELSE "ok"

\* the helper behind each request of the engine
request_outcome(op, status) ==
    IF op = "fetch" THEN get_feed_contents(status)
    ELSE es_request_non_200_exception(status)

\* no engine, no supervisor, no second process, no lease, no sampler
NoProgram ==
    /\ EngineOff /\ SupOff /\ PeerOff /\ LeaseOff /\ SamplerOff

\* the state of the program: every variable but call
program == <<config, peer, lease, sampler, published, observed, runs, backend, kv,
             locked, gc, task, sup, cancelling>>

InitRequest ==
    /\ NoProgram
    /\ \E op \in EngineRequests, status \in ResponseStatuses :
          call = [op |-> op, status |-> status, outcome |-> "pending"]

\* the response has arrived
RequestAnswered ==
    /\ call.op \in EngineRequests /\ call.outcome = "pending"
    /\ call' = [call EXCEPT !.outcome = request_outcome(call.op, call.status)]
    /\ UNCHANGED program

NextRequest == RequestAnswered

SpecRequest == InitRequest /\ [][NextRequest]_vars

\* ------------------------------------------------------ the body of a bulk
\* es_bulk of app_elasticsearch.py (called with the items of a page) and
\* es_bulk of core/app.py (called by ingest_feed with the parsed feed). A body
\* is the sequence of its lines and of the newline characters between them;
\* json.dumps gives one line, without a newline in it
NL == "\n"

json_dumps(value) == <<"json", value>>

RECURSIVE flatten(_)
flatten(list_to_flatten) ==
    IF list_to_flatten = <<>> THEN <<>>
    ELSE Head(list_to_flatten) \o flatten(Tail(list_to_flatten))

\* separator.join(strings)
RECURSIVE join(_, _)
join(separator, strings) ==
    IF Len(strings) = 0 THEN <<>>
    ELSE IF Len(strings) = 1 THEN <<strings[1]>>
    ELSE <<strings[1], separator>> \o join(separator, Tail(strings))

\* a body without the newline after its last line
es_bulk_contents_unterminated(items) ==
    join(NL, flatten([i \in 1..Len(items) |->
                         <<json_dumps(items[i].action_and_metadata),
                           json_dumps(items[i].source)>>]))

es_bulk_contents(items) ==
    join(NL, flatten([i \in 1..Len(items) |->
                         <<json_dumps(items[i].action_and_metadata),
                           json_dumps(items[i].source)>>])) \o <<NL>>

\* es_bulk of app_elasticsearch.py: nothing is sent for no items
es_bulk_request(items) ==
    IF items = <<>> THEN [sent |-> FALSE, payload |-> <<>>]
    ELSE [sent |-> TRUE, payload |-> es_bulk_contents(items)]

\* ingest_feed of core/app.py: the body of es_bulk(feed) is always posted
ingest_feed_request(items) ==
    [sent |-> TRUE,
     payload |-> join(NL, flatten([i \in 1..Len(items) |->
                                      <<json_dumps(items[i].action_and_metadata),
                                        json_dumps(items[i].source)>>])) \o <<NL>>]

ItemPool == {[action_and_metadata |-> <<"index", id>>, source |-> <<"activity", id>>] :
                 id \in {"a", "b", "c"}}

ItemLists == UNION {[1..n -> ItemPool] : n \in 0..MaxItems}

InitBulk ==
    /\ NoProgram
    /\ \E op \in {"es_bulk", "ingest_feed"}, items \in ItemLists :
          call = [op |-> op, items |-> items, done |-> FALSE,
                  request |-> [sent |-> FALSE, payload |-> <<>>]]

BulkCalled ==
    /\ call.op \in {"es_bulk", "ingest_feed"} /\ ~call.done
    /\ call' = [call EXCEPT !.done = TRUE,
                            !.request = IF call.op = "es_bulk"
                                        THEN es_bulk_request(call.items)
                                        ELSE ingest_feed_request(call.items)]
    /\ UNCHANGED program

NextBulk == BulkCalled

SpecBulk == InitBulk /\ [][NextBulk]_vars

\* ------------------------------------------------------- the owner of a name
\* the unique ids of two configured feeds: any two distinct strings of at
\* most MaxIdLen characters, the underscore among them
IdCharacters == {"a", "b", "_"}

FeedIdPool == UNION {[1..n -> IdCharacters] : n \in 1..MaxIdLen}

InitNames ==
    /\ NoProgram
    /\ \E f \in FeedIdPool : \E g \in FeedIdPool \ {f} :
          call = [op |-> "get_new_index_name", f |-> f, g |-> g, done |-> FALSE,
                  index_name |-> <<>>, matching |-> {}, removed_by |-> {}]

\* get_new_index_name(f) returns; the name is matched against the marker of
\* each of the two feeds and against the remove pattern of each
NameGenerated ==
    /\ call.op = "get_new_index_name" /\ ~call.done
    /\ \E unique \in Uniques :
          LET index_name == get_new_index_name(call.f, "D1", "T1", unique) IN
          call' = [call EXCEPT
                      !.done = TRUE,
                      !.index_name = index_name,
                      !.matching = {h \in {call.f, call.g} :
                                       index_name \in indexes_matching_feed({index_name}, h)},
                      !.removed_by = {h \in {call.f, call.g} :
                                         index_name \in remove_pattern_matches({index_name}, h)}]
    /\ UNCHANGED program

NextNames == NameGenerated

SpecNames == InitNames /\ [][NextNames]_vars

\* ------------------------------------------------------ the incoming endpoint
\* the middleware authenticate of the incoming application. A request is its
\* method, its body and its headers Authorization and Content-Type, each of
\* them possibly absent. A Hawk header carries an id and a MAC; a MAC is
\* modelled by what it was computed over, key included
NOT_PROVIDED == "Authentication credentials were not provided."

INCORRECT == "Incorrect authentication credentials."

MISSING_CONTENT_TYPE ==
    "Content-Type header was not set. It must be set for authentication, even if as the empty string."

\* the access key id and the secret key the application was created with
access_key_id == "incoming-id"

secret_key == "incoming-key"

Mac(key, method, content, content_type) == <<key, method, content, content_type>>

Methods == {"POST", "GET"}

Contents == {"", "{}"}

ContentTypes == {"", "application/json"}

NoHeader == [scheme |-> ABSENT, id |-> "", mac |-> <<>>]

AuthorizationHeaders ==
    {NoHeader, [scheme |-> "Basic", id |-> access_key_id, mac |-> <<>>]}
        \cup {[scheme |-> "Hawk", id |-> id, mac |-> Mac(key, method, content, content_type)] :
                 id \in {access_key_id, "other-id"}, key \in {secret_key, "other-key"},
                 method \in Methods, content \in Contents, content_type \in ContentTypes}

IncomingRequests ==
    [method : Methods, content : Contents,
     authorization : AuthorizationHeaders, content_type : ContentTypes \cup {ABSENT}]

\* lookup_credentials: the key of the id passed, or HawkFail
lookup_credentials(passed_access_key_id) ==
    IF passed_access_key_id # access_key_id THEN "HawkFail" ELSE secret_key

\* mohawk.Receiver over the request: TRUE when it raises HawkFail. The header
\* must be a Hawk header of a known id whose MAC is the MAC, under the key
\* of that id, of the method, the body and the content type of the request
raise_if_not_authentic(request) ==
    \/ request.authorization.scheme # "Hawk"
    \/ lookup_credentials(request.authorization.id) = "HawkFail"
    \/ request.authorization.mac #
          Mac(lookup_credentials(request.authorization.id), request.method,
              request.content, request.content_type)

Unauthorized(details) == [status |-> 401, details |-> details, handled |-> FALSE]

\* handle: the response of the route
handle(request) == [status |-> 200, details |-> "", handled |-> TRUE]

\* a middleware that looks for the Content-Type header first
authenticate_content_type_first(request) ==
    IF request.content_type = ABSENT THEN Unauthorized(MISSING_CONTENT_TYPE)
    ELSE IF request.authorization.scheme = ABSENT THEN Unauthorized(NOT_PROVIDED)
    ELSE IF raise_if_not_authentic(request) THEN Unauthorized(INCORRECT)
    ELSE handle(request)

authenticate(request) ==
    IF request.authorization.scheme = ABSENT THEN Unauthorized(NOT_PROVIDED)
    ELSE IF request.content_type = ABSENT THEN Unauthorized(MISSING_CONTENT_TYPE)
    ELSE IF raise_if_not_authentic(request) THEN Unauthorized(INCORRECT)
    ELSE handle(request)

InitIncoming ==
    /\ NoProgram
    /\ \E request \in IncomingRequests :
          call = [op |-> "incoming", request |-> request, done |-> FALSE,
                  response |-> Unauthorized("")]

\* the application answers the request
IncomingAnswered ==
    /\ call.op = "incoming" /\ ~call.done
    /\ call' = [call EXCEPT !.done = TRUE, !.response = authenticate(call.request)]
    /\ UNCHANGED program

NextIncoming == IncomingAnswered

SpecIncoming == InitIncoming /\ [][NextIncoming]_vars

\* ======================================================================
\* Properties
\* ======================================================================
\* the name of an index bears feed f: it contains activities__feed_id_<f>__
Bears(index_name, f) ==
    Contains(index_name, <<"activities", "_", "_", "feed_id_">> \o f \o <<"_", "_">>)

AliasedOf(f) == {index_name \in alias : Bears(index_name, f)}

\* the index was created by this run of the engine / left by an earlier run
IsNew(index_name) == Contains(index_name, <<"timestamp_", "T1">>)

IsOld(index_name) == Contains(index_name, <<"timestamp_", "T0">>)

Full(f) == task[Loop(f, "full")]

Updates(f) == task[Loop(f, "updates")]

C5_LoopsStartAfterGc ==
    /\ (gc.pc \in {"list", "delete"} \/ sup_pc[OUTER] = "sleep") =>
          /\ \A l \in Loops : sup_pc[l] = "unstarted" /\ task[l].pc = "idle"
          /\ \A f \in feed_unique_ids : feed_updates_seed_url[f] = ABSENT
          /\ locked = {} /\ runs = 0
    /\ (\E l \in Loops : sup_pc[l] # "unstarted") =>
          \A index_name \in indexes : \E f \in feed_unique_ids : Bears(index_name, f)

\* the feed loops have started after a pass that failed and a pass that
\* deleted the indexes of the decommissioned feed
C5_Witness ==
    /\ gc.pc = "gather"
    /\ num_exceptions_in_chain[OUTER] >= 1
    /\ \A l \in Loops : sup_pc[l] = "task"
    /\ indexes # {} /\ \A index_name \in indexes : IsOld(index_name)

\* ----------------------------------------------------- supervisor properties
schedule == exception_intervals[PROBE]

IsSleep(event) == event.e = "sleep"

Sleeps == SelectSeq(sup_log, IsSleep)

Returned == \E i \in 1..Len(sup_log) : sup_log[i].e = "returned"

\* the number of failures up to event i since the last return of the task
ConsecutiveFailures(i) ==
    Cardinality({j \in 1..i : /\ sup_log[j].e = "raised"
                              /\ \A m \in j..i : sup_log[m].e # "returned"})

ExpectedGaps == <<1, 2, 4, 8, 16, 32, 64, 64, 64, 64, 64, 64>>

\* C6: with a non-empty schedule s, the sleep after the k-th consecutive
\* failure (k >= 1) is s[min(k-1, len(s)-1)] (0-based); with
\* s = [1,2,4,8,16,32,64] and a task that always fails the gaps are
\* 1,2,4,8,16,32,64,64,64,...
C6_BackoffSchedule ==
    /\ \A i \in 1..Len(sup_log) :
          sup_log[i].e = "sleep" =>
              /\ ConsecutiveFailures(i) >= 1
              /\ sup_log[i].n =
                    schedule[Min(ConsecutiveFailures(i) - 1, Len(schedule) - 1) + 1]
    /\ (schedule = <<1, 2, 4, 8, 16, 32, 64>> /\ ~Returned) =>
          \A i \in 1..Len(Sleeps) : Sleeps[i].n = ExpectedGaps[i]

\* nine failures in a row under the default schedule
C6_Witness ==
    /\ schedule = <<1, 2, 4, 8, 16, 32, 64>> /\ ~Returned
    /\ Len(Sleeps) = 9 /\ Sleeps[9].n = 64

\* C7: when the task returns without raising, the supervisor calls it again
\* with no sleep in between and with the counter reset to zero, so the next
\* failure after a return sleeps schedule[0], however many failures preceded
\* the return.
C7_ReturnRestartsAndResets ==
    \A i \in 1..Len(sup_log) :
        sup_log[i].e = "returned" =>
            /\ i < Len(sup_log) /\ sup_log[i + 1].e = "run"
            /\ (i + 1 = Len(sup_log)) =>
                  (num_exceptions_in_chain[PROBE] = 0 /\ sup_pc[PROBE] = "task")
            /\ \A j \in (i + 1)..Len(sup_log) :
                  ( /\ sup_log[j].e = "sleep"
                    /\ \A m \in (i + 1)..(j - 1) : sup_log[m].e \notin {"sleep", "returned"} )
                  => sup_log[j].n = schedule[1]

\* two failures, a return, and the sleep of the next failure
C7_Witness ==
    \E i \in 2..Len(sup_log) :
        /\ sup_log[i].e = "returned"
        /\ ConsecutiveFailures(i - 1) >= 2
        /\ Len(schedule) >= 2
        /\ \E j \in (i + 1)..Len(sup_log) : sup_log[j].e = "sleep"

\* C8: a cancellation delivered while the task runs or while the supervisor
\* sleeps makes the supervisor return: after it there is no further run, no
\* further sleep and no report; every other failure is reported once and
\* followed by a backoff sleep.
C8_CancellationEndsSupervisor ==
    /\ \A i \in 1..Len(sup_log) :
          /\ sup_log[i].e = "cancel" =>
                (i = Len(sup_log) \/ (i + 1 = Len(sup_log) /\ sup_log[i + 1].e = "exit"))
          /\ sup_log[i].e = "exit" => i = Len(sup_log)
          /\ sup_log[i].e = "raised" =>
                /\ i + 2 <= Len(sup_log)
                /\ sup_log[i + 1].e = "captured" /\ sup_log[i + 2].e = "sleep"
          /\ sup_log[i].e = "captured" => (i > 1 /\ sup_log[i - 1].e = "raised")
    /\ captured = Cardinality({i \in 1..Len(sup_log) : sup_log[i].e = "raised"})
    /\ sup_pc[PROBE] = "done" <=> sup_log[Len(sup_log)].e = "exit"

\* the supervisor was cancelled in its backoff sleep and has returned
C8_Witness ==
    /\ Len(sup_log) >= 3
    /\ sup_log[Len(sup_log)].e = "exit"
    /\ sup_log[Len(sup_log) - 1].e = "cancel"
    /\ sup_log[Len(sup_log) - 2].e = "sleep"

\* ------------------------------------------------------------ lock properties
Fetching(f) == {t \in {"full", "updates"} : task[Loop(f, t)].pc = "fetch"}

\* C9: within one process, for every feed f, at most one outbound feed
\* request for f is in flight at any moment, although the full loop and the
\* updates loop of f run concurrently: they share one lock, which is locked
\* for the whole duration of each page fetch.
C9_OneFetchPerFeed ==
    \A f \in feed_unique_ids :
        /\ Cardinality(Fetching(f)) <= 1
        /\ feed_lock(f, "full") = feed_lock(f, "updates")
        /\ Fetching(f) # {} => feed_lock(f, "full") \in locked

\* one loop of the feed fetches while the other one waits for the lock
C9_Witness ==
    \E f \in feed_unique_ids :
        /\ Full(f).pc = "fetch" /\ Updates(f).pc = "acquire"
        /\ feed_lock(f, "full") \in locked

\* C10: a loop of feed f holds the lock of f only while its page fetch is in
\* flight, not while it parses, converts, pushes or sleeps, so that the other
\* loop of f can fetch during that time; and the locks of different feeds
\* are distinct, so that a fetch for f never delays a fetch for another feed.
C10_LockOnlyAroundFetch ==
    /\ \A f \in feed_unique_ids :
          /\ feed_lock(f, "full") \in locked <=> Fetching(f) # {}
          /\ \A t \in {"full", "updates"} :
                (task[Loop(f, t)].pc = "acquire" /\ Fetching(f) = {})
                    => ENABLED AcquireLock(Loop(f, t))
    /\ \A f, g \in feed_unique_ids :
          f # g => \A t, u \in {"full", "updates"} : feed_lock(f, t) # feed_lock(g, u)

\* the full loop of F1 pushes a page while the updates loop of F1 fetches,
\* and a loop of F2 fetches at the same time
C10_Witness ==
    /\ Full(<<"F1">>).pc \in {"push", "page_sleep"}
    /\ Updates(<<"F1">>).pc = "fetch"
    /\ Fetching(<<"F2">>) # {}

\* ------------------------------------------------------------ cursor properties
\* the page of the chain of feed f whose next_href is empty
LastPage(f) == HrefPool[feed_endpoints[f].pages]

\* C11: when a full ingest of feed f completes successfully,
\* feed_updates_seed_url:<f> holds the URL of the last page that full ingest
\* fetched (the page whose next_href was empty), not the seed and not an
\* empty value; for the pages seed -> second page -> end it holds the URL of
\* the second page.
C11_SeedUrlIsLastPage ==
    [][\A f \in feed_unique_ids :
          (Full(f).pc = "record" /\ task'[Loop(f, "full")].pc = "init") =>
              /\ feed_updates_seed_url'[f] = LastPage(f)
              /\ next_href(f, feed_updates_seed_url'[f]) = ""
              /\ feed_updates_seed_url'[f] \notin {"", ABSENT, NOT_EXISTS}
              /\ feed_endpoints[f].pages >= 2 => feed_updates_seed_url'[f] # seed
              /\ feed_endpoints[f].pages = 2 => feed_updates_seed_url'[f] = HrefPool[2]]_vars

\* a full ingest of a feed of several pages has just returned
C11_Witness ==
    \E f \in feed_unique_ids :
        /\ feed_endpoints[f].pages >= 2
        /\ Full(f).pc = "init" /\ num_exceptions_in_chain[Loop(f, "full")] = 0
        /\ feed_updates_seed_url[f] = LastPage(f)

\* the awaits of an updates pass that come after its first listing
UpdatesWalking == {"acquire", "fetch", "push", "refresh", "set_url", "sleep"}

\* C12: starting from a KV store that holds neither feed_updates_url:<f> nor
\* a real feed_updates_seed_url:<f>, the updates loop of f performs no feed
\* fetch and no bulk write until some full ingest of f has completed its
\* record_cursor step.
C12_UpdatesWaitForFirstFull ==
    \A f \in feed_unique_ids :
        (feed_updates_url[f] = ABSENT /\ f \notin recorded) =>
            /\ feed_updates_seed_url[f] \in {ABSENT, NOT_EXISTS}
            /\ Updates(f).pc \notin UpdatesWalking \cup {"list"}
            /\ Updates(f).pc \in {"failed", "cancelled"} => Updates(f).failed_at = "get_url"

\* the first full ingest has flipped the alias and has not yet recorded its
\* cursor: the updates loop is still waiting for its url
C12_Witness ==
    \E f \in feed_unique_ids :
        /\ feed_updates_url[f] = ABSENT /\ f \notin recorded
        /\ feed_updates_seed_url[f] = NOT_EXISTS
        /\ Full(f).pc = "record"
        /\ Updates(f).pc = "get_url" /\ sup_pc[Loop(f, "updates")] = "task"

\* the indexes of feed f that the listing kept by its updates pass shows
ListedOf(f) ==
    {index_name \in Updates(f).indexes_without_alias \cup Updates(f).indexes_with_alias :
        Bears(index_name, f)}

PagesOf(f) == {<<HrefPool[i], 0>> : i \in 1..feed_endpoints[f].pages}

\* C14: if an updates pass of feed f pushes items while a full ingest of f is
\* in flight (after its init and before its cutover), then after the cutover
\* of that full ingest the new live index of f contains those items as well
\* as the pages of the full ingest.
C14_NewLiveIndexCaughtUp ==
    \A f \in feed_unique_ids :
        Full(f).pc = "record" =>
            \A index_name \in AliasedOf(f) :
                /\ PagesOf(f) \subseteq docs[index_name]
                /\ updates_items[f] \subseteq docs[index_name]

\* C15: feed_updates_url:<f> is written only at the end of an updates pass in
\* which every page fetch, every bulk push and every refresh succeeded, and is
\* then set to the URL of the last page fetched in that pass; if a step of the
\* pass fails, feed_updates_url:<f> keeps its value and the retried pass
\* starts again from it.
C15_UpdatesCursor ==
    [][\A f \in feed_unique_ids :
          /\ feed_updates_url'[f] # feed_updates_url[f] =>
                /\ Updates(f).pc = "set_url"
                /\ Updates(f).href = "" /\ Updates(f).pending = {}
                /\ feed_updates_url'[f] = Updates(f).updates_href
                /\ next_href(f, feed_updates_url'[f]) = ""
                /\ feed_updates_url'[f] \notin {"", ABSENT}
          /\ task'[Loop(f, "updates")].pc = "failed" =>
                feed_updates_url'[f] = feed_updates_url[f]
          /\ ( /\ Updates(f).pc = "get_url" /\ task'[Loop(f, "updates")].pc = "list"
               /\ feed_updates_url[f] # ABSENT ) =>
                task'[Loop(f, "updates")].href = feed_updates_url[f]]_vars

\* a pass that failed has been retried from the cursor it had started from,
\* and has then moved the cursor to the last page
C15_Witness ==
    \E f \in feed_unique_ids :
        /\ captured >= 1 /\ Updates(f).pc = "sleep"
        /\ feed_updates_url[f] = LastPage(f) /\ LastPage(f) # HrefPool[1]
        /\ num_exceptions_in_chain[Loop(f, "updates")] >= 1

\* C16: while two processes run the full ingest of a feed against the same
\* backend (the lease is held twice), the alias still never has more than
\* one index of a feed, and sending the cutover request again for the index
\* that is the member of the feed leaves the members of the alias as they are.
C16_AliasUnderTwoLeaders ==
    \A f \in feed_unique_ids :
        /\ Cardinality(AliasedOf(f)) <= 1
        /\ \A index_name \in AliasedOf(f) :
               add_remove_aliases_atomically(index_name, f) = alias

\* both processes have sent their cutover, the first process last: its index
\* is the member, the index of the second process exists without the alias
C16_Witness ==
    /\ Full(PeerFeed).pc = "record"
    /\ Full(PeerFeed).index_names \subseteq alias
    /\ peer.pc = "record"
    /\ peer.index_name \in indexes \ alias
    /\ Cardinality(AliasedOf(PeerFeed)) = 1

\* process p believes it is the leader: acquire_and_keep_lock has returned
\* and cleanup has not run
Leaders == {p \in Procs : proc[p].pc \in {"create_outgoing", "create_metrics", "running"}}

Waiting == {p \in Procs : proc[p].pc \in {"acquire", "backoff"}}

\* the key 'lock' exists and holds what p has set
HoldsLease(p) == lock.ttl > 0 /\ lock.by = p

C18_OneLeaseHolder ==
    /\ [](/\ Cardinality(Leaders) <= 1
          /\ \A p \in Leaders : HoldsLease(p)
          /\ \A p \in Waiting :
                /\ ~proc[p].engine /\ ~proc[p].sampler /\ ~proc[p].renewer
                /\ proc[p].acted = "none"
                /\ proc[p].pc = "backoff" =>
                       /\ proc[p].failures >= 1
                       /\ proc[p].interval = EXCEPTION_INTERVALS[proc[p].failures])
    /\ [][\A p \in Procs :
             lock'.by = p /\ lock.by # p => lock.ttl = 0 /\ proc[p].pc = "acquire"]_vars

\* a leader whose renewer has run, and a process that has failed twice in a
\* row and sleeps for the second interval of the schedule
C18_Witness ==
    \E p \in Procs :
        /\ proc[p].pc = "running" /\ proc[p].renewed /\ HoldsLease(p)
        /\ \E q \in Procs \ {p} :
               /\ proc[q].pc = "backoff" /\ proc[q].failures = 2
               /\ proc[q].interval = 2

\* C19: when the leader shuts down, cleanup cancels the renewer and does not
\* delete the key 'lock'; from then on nobody prolongs the key, it expires
\* within its time to live, and if a process is waiting in acquire_and_keep
\* a process other than the one that shut down becomes the leader.
C19_TakeoverAfterShutdown ==
    /\ [][\A p \in Procs :
             /\ proc[p].pc = "running" /\ proc'[p].pc = "closed" => lock' = lock
             /\ proc[p].pc = "closed" /\ lock.by = p /\ lock'.by = p =>
                    lock'.ttl <= lock.ttl]_vars
    /\ \A p \in Procs :
          (proc[p].pc = "closed" /\ Waiting # {}) ~> (Leaders \ {p} # {})

\* the leader has shut down and a process that had waited has taken over
C19_Witness ==
    \E p \in Procs :
        /\ proc[p].pc = "closed"
        /\ \E q \in Leaders : proc[q].failures >= 1 /\ HoldsLease(q)

\* the value a gauge has at the end of a round in which the labels of unset
\* were left alone and every other one was set; the verification age is set
\* when the search has found a verification activity
GaugesAfter(unset) ==
    [label \in Labels |->
        IF label \in unset \/ (label = Total("verification") /\ ~poll.found)
        THEN poll.before.metrics[label]
        ELSE poll.round]

\* every answer of the round so far is a 200, or the 503 of a request of tolerated
OnlyUnavailable(tolerated) ==
    \A request \in Requests :
        \/ poll.statuses[request] \in {0, 200}
        \/ request \in tolerated /\ poll.statuses[request] = 503

\* the round has not failed, and once its snapshot is written the gauges of
\* unset have the value they had before the round and the others are set
RoundGoesOn(unset) ==
    /\ poll.pc # "failed" /\ sup_pc[SAMPLER] = "task"
    /\ captured = poll.before.captured
    /\ poll.pc = "sleep" => metrics = GaugesAfter(unset) /\ redis_metrics = metrics

\* C20 as stated: when any _count request of a round is answered 503, the
\* round does not fail, the label fed by that request is left un-updated,
\* all other labels are set, the snapshot is written to the key 'metrics'
\* and the supervisor records no failure and takes no backoff.
C20_AnyCount503IsSkipped ==
    LET unavailable == {request \in CountRequests : poll.statuses[request] = 503}
        fed == {Total("searchable"), Total("nonsearchable")}
                   \cup {<<request[1], IF request[2] = "total" THEN "searchable"
                                       ELSE "nonsearchable">> : request \in FeedRequests}
        unset == {label \in fed :
                     \E request \in unavailable :
                         /\ request[1] = label[1]
                         /\ request[2] = IF label[1] # <<>> /\ label[2] = "searchable"
                                         THEN "total" ELSE label[2]}
    IN  unavailable # {} /\ OnlyUnavailable(unavailable) => RoundGoesOn(unset)

\* C20, amended: when the nonsearchable count of all the feeds or one of the
\* two counts of a feed is answered 503, the round does not fail: the gauges
\* computed from that call (the nonsearchable gauge, or both gauges of that
\* feed) are left un-updated, all the others are set, the snapshot is written
\* to the key 'metrics' and the supervisor records no failure. When the
\* searchable count of the alias is answered 503 the round fails: no gauge is
\* set, no snapshot is written, the supervisor reports it and backs off.
C20_TolerantCount503IsSkipped ==
    LET skipped == {request \in CountRequests \ {Total("searchable")} :
                        poll.statuses[request] = 503}
        unset == {label \in Labels :
                     IF label[1] = <<>> THEN label \in skipped
                     ELSE \E request \in skipped : request[1] = label[1]}
    IN  /\ skipped # {} /\ OnlyUnavailable(skipped) => RoundGoesOn(unset)
        /\ poll.statuses[Total("searchable")] = 503 =>
               /\ poll.pc = "failed" /\ sup_pc[SAMPLER] = "sleep"
               /\ captured = poll.before.captured + 1
               /\ metrics = poll.before.metrics
               /\ redis_metrics = poll.before.redis_metrics

\* the second round has ended after a 503 on the total count of the first
\* feed: its gauges keep the value of the first round, those of the second
\* feed are set, and the snapshot is written
C20_Witness ==
    /\ poll.pc = "sleep" /\ poll.round = 2
    /\ poll.statuses[<<SamplerFeeds[1], "total">>] = 503
    /\ metrics[<<SamplerFeeds[1], "nonsearchable">>] = 1
    /\ metrics[<<SamplerFeeds[2], "searchable">>] = 2
    /\ redis_metrics = metrics
    /\ captured = 0

\* C21: the metrics sampler never blocks ingestion: no step of the sampler
\* (a request answered, a failure, the snapshot written, a sleep over) takes
\* or releases a feed lock or changes what a loop has done, and a step of a
\* loop of a feed that is enabled before a step of the sampler is enabled
\* after it.
C21_SamplerNeverBlocks ==
    [][NextSampler =>
          /\ UNCHANGED <<locked, task, gc, backend, kv, cancelling>>
          /\ \A l \in Loops : ENABLED LoopStep(l) => (ENABLED LoopStep(l))']_vars

\* the sampler has failed and is in its backoff sleep while the full loop
\* holds the lock of the feed for its fetch and the updates loop waits for it
C21_Witness ==
    /\ SAMPLER \in DOMAIN sup_pc /\ sup_pc[SAMPLER] = "sleep" /\ poll.pc = "failed"
    /\ \E f \in feed_unique_ids :
          /\ Full(f).pc = "fetch" /\ Updates(f).pc = "acquire"
          /\ feed_lock(f, "full") \in locked

\* C22 as stated: a backend call of the engine (list, delete, create,
\* refresh, bulk, alias flip) raises if and only if the status of the
\* response is not a 2xx status, and a feed fetch raises if and only if the
\* status of the response of the feed is not 2xx.
C22_RaisesIffNot2xx ==
    call.op \in EngineRequests /\ call.outcome # "pending" =>
        (call.outcome = "exception" <=> call.status \notin 200..299)

\* C22, amended: a backend call of the engine raises if and only if the
\* status of the response is not 200, and a feed fetch raises if and only if
\* the status of the response of the feed is not 200: a 2xx status other
\* than 200 raises too.
C22_RaisesIffNot200 ==
    call.op \in EngineRequests /\ call.outcome # "pending" =>
        /\ call.outcome \in {"ok", "exception"}
        /\ call.outcome = "exception" <=> call.status # 200

\* the cutover was answered 204 and the helper has raised
C22_Witness ==
    /\ call.op = "alias_flip" /\ call.status = 204 /\ call.outcome = "exception"

\* the number of newline characters of a body
Newlines(payload) == Cardinality({i \in 1..Len(payload) : payload[i] = NL})

\* the body is the action line and then the source line of every item, in
\* the order of the list, each line followed by a newline
LinePairs(payload, items) ==
    /\ Len(payload) = 4 * Len(items)
    /\ \A i \in 1..Len(items) :
          /\ payload[4 * i - 3] = json_dumps(items[i].action_and_metadata)
          /\ payload[4 * i - 2] = NL
          /\ payload[4 * i - 1] = json_dumps(items[i].source)
          /\ payload[4 * i] = NL

BulkDone == call.op \in {"es_bulk", "ingest_feed"} /\ call.done

\* C23 as stated: for every list of n >= 1 bulk items the body emitted by
\* es_bulk has exactly 2n + 1 newline characters and ends with a newline,
\* being the action line then the source line of each item in list order;
\* for n = 0 no request is sent at all.
C23_BodyHas2nPlus1Newlines ==
    BulkDone =>
        IF Len(call.items) = 0 THEN ~call.request.sent
        ELSE /\ call.request.sent
             /\ Newlines(call.request.payload) = 2 * Len(call.items) + 1
             /\ call.request.payload[Len(call.request.payload)] = NL

\* C23, amended: for every list of n >= 1 bulk items the body emitted by
\* es_bulk has exactly 2n newline characters and ends with a newline, being
\* the action line then the source line of each item in list order, each
\* followed by a newline; for n = 0 es_bulk of app_elasticsearch.py sends no
\* request at all, and ingest_feed of core/app.py posts the body of one
\* newline that its es_bulk returns.
C23_BodyHas2nNewlines ==
    BulkDone =>
        IF Len(call.items) = 0
        THEN IF call.op = "es_bulk" THEN ~call.request.sent
             ELSE call.request.sent /\ call.request.payload = <<NL>>
        ELSE /\ call.request.sent
             /\ Newlines(call.request.payload) = 2 * Len(call.items)
             /\ call.request.payload[Len(call.request.payload)] = NL
             /\ LinePairs(call.request.payload, call.items)

\* es_bulk has been called with three items, the first one twice
C23_Witness ==
    /\ BulkDone /\ call.op = "es_bulk" /\ Len(call.items) = 3
    /\ call.items[1] = call.items[3] /\ call.items[1] # call.items[2]
    /\ Newlines(call.request.payload) = 6

\* loop l enters ingest_feed_page: it takes the lock or starts to wait for it
PageEntry(l) ==
    /\ task'[l].pc \in {"fetch", "acquire"}
    /\ task[l].pc \notin {"fetch", "acquire"}

\* the pages of a loop, in order: the page pushed is the page fetched, the
\* page entered next is the one the page just pushed names, and the page
\* loop is left only after a page that names none
PagesInOrder(l) ==
    LET pages == feed_endpoints[l[1]].pages IN
    /\ task'[l].pc = "push" /\ task[l].pc # "push" =>
           /\ task[l].pc = "fetch"
           /\ task'[l].href = task[l].href
           /\ task'[l].feed_parsed = feed_contents(l[1], task[l].href)
    /\ PageEntry(l) =>
           \/ l[2] = "full" /\ task[l].pc = "scrub" /\ task'[l].href = seed
           \/ l[2] = "updates" /\ task[l].pc = "list" /\ task'[l].href = task[l].href
           \/ /\ l[2] = "full" /\ task[l].pc = "page_sleep"
              /\ task'[l].href = next_url(pages, task[l].updates_href)
              /\ task'[l].href # ""
           \/ /\ l[2] = "updates" /\ task[l].pc = "push"
              /\ task'[l].href = next_url(pages, task[l].href)
              /\ task'[l].href # ""
    /\ task[l].pc = "page_sleep" /\ task'[l].pc = "refresh" =>
           next_url(pages, task[l].updates_href) = ""
    /\ l[2] = "updates" /\ task[l].pc = "push" /\ task'[l].pc \in {"refresh", "set_url"} =>
           next_url(pages, task[l].href) = ""

\* C24 as stated: within one feed f pages are fetched and pushed strictly in
\* order: the request for a page of f is sent only when no page of f that
\* was fetched before still waits for its bulk push, and within a pass the
\* page fetched next is the one named by the page just pushed.
C24_FeedPagesInOrder ==
    [][\A l \in Loops :
          /\ PagesInOrder(l)
          /\ task'[l].pc = "fetch" /\ task[l].pc # "fetch" =>
                 \A t \in {"full", "updates"} : task[Loop(l[1], t)].pc # "push"]_vars

\* C24, amended: within each loop (full or updates) of a feed f pages are
\* fetched and pushed strictly in order: the loop fetches a page only after
\* it has bulk-pushed the page it fetched before, and within a pass the page
\* fetched next is the one named by the page just pushed. The two loops of a
\* feed are not ordered with each other: one may fetch while the push of
\* the other is pending.
C24_LoopPagesInOrder ==
    [][\A l \in Loops :
          /\ PagesInOrder(l)
          /\ task'[l].pc = "fetch" /\ task[l].pc # "fetch" =>
                 /\ task[l].pc # "push" \/ l[2] = "updates"
                 /\ task[l].feed_parsed = {} \/ task[l].pc = "push"]_vars

\* the full loop fetches the second page of the feed while a page the
\* updates loop has fetched waits for its push
C24_Witness ==
    \E f \in feed_unique_ids :
        /\ Full(f).pc = "fetch" /\ Full(f).href = HrefPool[2]
        /\ Updates(f).pc = "push" /\ Updates(f).feed_parsed # {}

\* C25: the full ingest of a feed is periodic. With a finite chain, no
\* failing request, no cancellation and fair scheduling, every full ingest
\* that begins reaches its cutover and then record_cursor, after each one a
\* new full ingest starts, and so the cutover of the feed happens infinitely
\* often.
C25_FullIngestPeriodic ==
    /\ (Full(PeriodicFeed).pc = "list") ~> (Full(PeriodicFeed).pc = "cutover")
    /\ (Full(PeriodicFeed).pc = "cutover") ~> (Full(PeriodicFeed).pc = "record")
    /\ (Full(PeriodicFeed).pc = "record") ~> (Full(PeriodicFeed).pc = "init")
    /\ (Full(PeriodicFeed).pc = "init") ~> (Full(PeriodicFeed).pc = "list")
    /\ []<><<FullCutover(PeriodicFeed)>>_vars

\* a second full ingest of the feed has got past its cutover: the index it
\* created is live and the index of the ingest before it is not
C25_Witness ==
    /\ Full(PeriodicFeed).pc = "record"
    /\ PeriodicFeed \in recorded
    /\ \E index_name \in AliasedOf(PeriodicFeed) : IsNew(index_name)
    /\ \E index_name \in indexes \ alias : IsNew(index_name)

\* the Authorization header of the request is the Hawk signature, under the
\* configured id and key, of the request as it arrived
Signed(request) ==
    /\ request.authorization.scheme = "Hawk"
    /\ request.authorization.id = access_key_id
    /\ request.authorization.mac =
          Mac(secret_key, request.method, request.content, request.content_type)

\* C26: in the incoming endpoint of core/app.py a request reaches the handler
\* only if it carries an Authorization header, carries a Content-Type header
\* and passes Hawk verification; otherwise it is answered 401 and the
\* handler is not run, with the message of the first failing check in that
\* order: NOT_PROVIDED, MISSING_CONTENT_TYPE, INCORRECT.
C26_OnlyAuthenticReachHandler ==
    call.op = "incoming" /\ call.done =>
        LET request == call.request
            has_authorization == request.authorization.scheme # ABSENT
            has_content_type == request.content_type # ABSENT
        IN  /\ call.response.handled <=>
                   has_authorization /\ has_content_type /\ Signed(request)
            /\ ~call.response.handled =>
                   /\ call.response.status = 401
                   /\ call.response.details =
                         IF ~has_authorization THEN NOT_PROVIDED
                         ELSE IF ~has_content_type THEN MISSING_CONTENT_TYPE
                         ELSE INCORRECT

\* a request with neither header was told that its credentials are missing
C26_Witness ==
    /\ call.op = "incoming" /\ call.done
    /\ call.request.authorization.scheme = ABSENT
    /\ call.request.content_type = ABSENT
    /\ call.response = Unauthorized(NOT_PROVIDED)

\* C27: for any two distinct configured feed ids f and g, an index name
\* generated for f by get_new_index_name is matched by indexes_matching_feed
\* for f and not for g, and it is not removed from the alias by the remove
\* pattern of the cutover of g: the substring activities__feed_id_<id>__
\* identifies exactly one owning feed.
C27_NameHasOneOwner ==
    call.op = "get_new_index_name" /\ call.done =>
        /\ call.matching = {call.f}
        /\ call.g \notin call.removed_by

\* an id that does not end in an underscore and has no two underscores in a row
PlainId(id) ==
    /\ id[Len(id)] # "_"
    /\ \A i \in 1..(Len(id) - 1) : ~(id[i] = "_" /\ id[i + 1] = "_")

\* the name generated for a plain id has one owner among the plain ids
PlainNameHasOneOwner ==
    call.op = "get_new_index_name" /\ call.done /\ PlainId(call.f) /\ PlainId(call.g) =>
        /\ call.matching = {call.f}
        /\ call.removed_by = {call.f}

\* C28: an index built by a full ingest enters the alias only after it has
\* been refreshed, and that refresh happens after the last bulk push of that
\* full ingest into it: the order for one full ingest is last page push,
\* then refresh, then cutover, then record_cursor.
C28_PushRefreshCutoverRecord ==
    [][\A f \in feed_unique_ids :
          LET this == Full(f)
              next == task'[Loop(f, "full")]
          IN  /\ next.pc = "refresh" /\ this.pc # "refresh" =>
                     /\ this.pc = "page_sleep"
                     /\ next_url(feed_endpoints[f].pages, this.updates_href) = ""
              /\ next.pc = "cutover" /\ this.pc # "cutover" => this.pc = "refresh"
              /\ next.pc = "record" /\ this.pc # "record" => this.pc = "cutover"
              /\ this.pc \in {"refresh", "cutover", "record"} =>
                     next.pc \notin {"acquire", "fetch", "push", "page_sleep"}
              /\ \A index_name \in alias' \ alias :
                     Bears(index_name, f) =>
                        /\ this.pc = "cutover" /\ next.pc = "record"
                        /\ index_name \in this.index_names
              /\ feed_updates_seed_url'[f] \notin {feed_updates_seed_url[f], NOT_EXISTS} =>
                     this.pc = "record" /\ next.pc = "init"]_vars

\* the index that a full ingest built from the pages of the feed is in the
\* alias and the seed of the updates is still to be recorded
C28_Witness ==
    \E f \in feed_unique_ids :
        /\ Full(f).pc = "record"
        /\ \E index_name \in Full(f).index_names \cap alias :
               docs[index_name] = PagesOf(f)

\* C29: feed_updates_seed_url of f is set to a real URL only after the
\* cutover of the same full ingest has succeeded; if the full ingest fails
\* between cutover and record_cursor, the new index stays live and the cursor
\* keys keep the values they had; and a full ingest of f that succeeds
\* overwrites feed_updates_seed_url of f.
C29_SeedUrlAfterCutover ==
    [][\A f \in feed_unique_ids :
          LET this == Full(f)
              next == task'[Loop(f, "full")]
          IN  /\ feed_updates_seed_url'[f] \notin {feed_updates_seed_url[f], NOT_EXISTS} =>
                     /\ this.pc = "record"
                     /\ this.index_names # {}
                     /\ AliasedOf(f) = this.index_names
              /\ this.pc = "record" /\ next.pc = "failed" =>
                     /\ AliasedOf(f) = this.index_names
                     /\ alias' = alias /\ indexes' = indexes /\ docs' = docs
                     /\ feed_updates_seed_url' = feed_updates_seed_url
                     /\ feed_updates_url' = feed_updates_url
              /\ this.pc = "record" /\ next.pc = "init" =>
                     /\ feed_updates_seed_url[f] = NOT_EXISTS
                     /\ feed_updates_seed_url'[f] = LastPage(f)]_vars

\* the full ingest failed between its cutover and record_cursor: the index it
\* built is live and the seed of the updates is still the sentinel
C29_Witness ==
    \E f \in feed_unique_ids :
        /\ Full(f).pc = "failed" /\ Full(f).failed_at = "record"
        /\ \E index_name \in AliasedOf(f) : IsNew(index_name)
        /\ feed_updates_seed_url[f] = NOT_EXISTS

\* the index was created by a full ingest of feed g: it is a name that
\* get_new_index_name returns for g
BuiltFor(index_name, g) ==
    \E today \in {"D0", "D1"}, now \in {"T0", "T1", "T2"},
       i \in DOMAIN UniquePool :
        index_name = get_new_index_name(g, today, now, UniquePool[i])

\* C30: the cutover of feed f changes the alias membership of indexes of f
\* only: for every other configured feed g the set of indexes of g in the
\* alias is the same before and after the cutover of f, and no index is
\* created or deleted by the cutover.
C30_CutoverTouchesOwnFeedOnly ==
    [][\A f \in feed_unique_ids :
          Full(f).pc = "cutover" /\ task'[Loop(f, "full")].pc = "record" =>
              /\ indexes' = indexes
              /\ DOMAIN docs' = DOMAIN docs
              /\ \A index_name \in (alias' \ alias) \cup (alias \ alias') :
                     BuiltFor(index_name, f)
              /\ \A g \in feed_unique_ids \ {f} :
                     {index_name \in alias' : BuiltFor(index_name, g)} =
                        {index_name \in alias : BuiltFor(index_name, g)}]_vars

\* the pcs of a full ingest between its create step and its refresh
FullPagePcs == {"acquire", "fetch", "push", "page_sleep"}

\* C31: a full ingest of feed f bulk-writes only into the index it created in
\* its own create step: it never writes into the index of f that is
\* currently live, into an index of another feed, or into an index left by
\* an earlier full ingest.
C31_FullWritesOwnIndexOnly ==
    [][\A f \in feed_unique_ids :
          LET this == Full(f)
              next == task'[Loop(f, "full")]
          IN  /\ this.pc = "scrub" /\ next.pc \in FullPagePcs =>
                     /\ next.index_names = indexes' \ indexes
                     /\ Cardinality(next.index_names) = 1
              /\ this.pc \in FullPagePcs /\ next.pc \in FullPagePcs =>
                     next.index_names = this.index_names
              /\ this.pc = "push" /\ next.pc = "page_sleep" =>
                     /\ \A index_name \in DOMAIN docs :
                            docs'[index_name] # docs[index_name] =>
                                index_name \in this.index_names
                     /\ \A index_name \in this.index_names :
                            /\ index_name \notin alias
                            /\ index_name \notin this.started_with
                            /\ BuiltFor(index_name, f)
                            /\ \A g \in feed_unique_ids \ {f} : ~Bears(index_name, g)
                            /\ IsNew(index_name)
                            /\ index_name \in indexes =>
                                   this.feed_parsed \subseteq docs'[index_name]]_vars

\* a full ingest has pushed a page into the index it built while the feed
\* has a live index, left by an earlier run, that holds no page
C31_Witness ==
    \E f \in feed_unique_ids :
        /\ Full(f).pc = "page_sleep"
        /\ \E index_name \in Full(f).index_names \cap indexes : docs[index_name] # {}
        /\ \E index_name \in AliasedOf(f) : IsOld(index_name) /\ docs[index_name] = {}

\* C32: every index an updates pass of feed f bulk-writes to or refreshes
\* still exists at the moment of that request: the concurrent full loop of f
\* never deletes, in its scrub step, an index that an updates pass in
\* progress still has in its target list.
C32_UpdatesTargetsExist ==
    \A f \in feed_unique_ids :
        /\ Updates(f).pc = "push" /\ Updates(f).feed_parsed # {} =>
               Updates(f).index_names \subseteq indexes
        /\ Updates(f).pc = "refresh" => Updates(f).pending \subseteq indexes

\* C33: at the end of an updates pass of feed f, the indexes it refreshes are
\* exactly the indexes of f that are members of the alias at the moment of
\* the refresh, so that every item the pass wrote into the live index is
\* searchable through the alias once the pass has stored its cursor.
C33_UpdatesRefreshTheLive ==
    \A f \in feed_unique_ids :
        Updates(f).pc = "refresh" =>
            /\ Updates(f).pending \subseteq AliasedOf(f)
            /\ indexes_matching_feeds(Updates(f).indexes_with_alias, {f}) = AliasedOf(f)

\* the indexes that carry the marker of feed f
IndexesOf(f) == {index_name \in indexes : Bears(index_name, f)}

C35_FailedPassIsAbandoned ==
    [][\A l \in Loops :
          LET this == task[l]
              next == task'[l]
          IN  /\ captured' # captured /\ this.pc \notin {"failed", "cancelled"}
                    /\ next.pc = "failed" =>
                     /\ sup_pc[l] = "task" /\ sup_pc'[l] = "sleep"
                     /\ num_exceptions_in_chain'[l] = num_exceptions_in_chain[l] + 1
                     /\ next.href = "" /\ next.updates_href = ""
                     /\ next.index_names = {} /\ next.feed_parsed = {}
                     /\ feed_lock(l[1], l[2]) \in locked' =>
                            \E other \in Loops \ {l} : task[other].pc = "fetch"
              /\ this.pc = "failed" =>
                     next.pc \in {"failed", "cancelled",
                                  IF l[2] = "full" THEN "init" ELSE "get_url"}
              /\ this.pc = "failed" /\ next.pc \in {"init", "get_url"} =>
                     next = FirstAwait(l[2], alias)
              /\ l[2] = "full" /\ this.pc = "scrub" /\ next.pc \in FullPagePcs =>
                     /\ next.href = seed
                     /\ next.index_names \cap indexes = {}
                     /\ \A index_name \in next.index_names : docs'[index_name] = {}
                     /\ indexes_matching_feeds(this.indexes_without_alias, {l[1]})
                            \cap indexes = {}]_vars

\* a pass of the full ingest failed, and the attempt that followed it fetches
\* the seed for an index that it created and that is still empty
C35_Witness ==
    \E f \in feed_unique_ids :
        /\ num_exceptions_in_chain[Loop(f, "full")] = 1
        /\ Full(f).pc = "fetch" /\ Full(f).href = seed
        /\ \A index_name \in Full(f).index_names : docs[index_name] = {}
        /\ Full(f).index_names # {}

\* C36: the mutex of a feed is held only by a loop whose fetch is in flight:
\* when a fetch fails, returns a status other than 200 or is cancelled, the
\* mutex is released, so that a failing or backing-off loop of feed f never
\* prevents the other loop of f from fetching (no deadlock on the mutex).
C36_FailedFetchReleasesLock ==
    [][\A l \in Loops :
          LET other == Loop(l[1], IF l[2] = "full" THEN "updates" ELSE "full") IN
          /\ task[l].pc = "fetch" /\ task'[l].pc \in {"failed", "cancelled"} =>
                 feed_lock(l[1], l[2]) \notin locked'
          /\ feed_lock(l[1], l[2]) \in locked' =>
                 task'[l].pc = "fetch" \/ task'[other].pc = "fetch"
          /\ task'[l].pc \in {"failed", "cancelled", "idle"} /\ task'[other].pc = "acquire"
                /\ sup_pc'[other] = "task" /\ ~cancelling' =>
                 (ENABLED AcquireLock(other))']_vars

\* the fetch of the full loop failed; while the full loop backs off, the
\* updates loop of the feed has taken the lock and fetches
C36_Witness ==
    \E f \in feed_unique_ids :
        /\ Full(f).pc = "failed" /\ Full(f).failed_at = "fetch"
        /\ sup_pc[Loop(f, "full")] = "sleep"
        /\ Updates(f).pc = "fetch"
        /\ feed_lock(f, "updates") \in locked

\* every task but the one of cleanup has ended, and nothing is left locked
AllCancelled ==
    /\ cancelling
    /\ \A s \in DOMAIN sup_pc \ {CLEANUP} : sup_pc[s] \in {"done", "unstarted"}
    /\ \A l \in Loops : task[l].pc \in {"idle", "cancelled"}
    /\ gc.pc = "idle" /\ locked = {}

\* the clients are closed only by the step that follows the cancellation, and
\* a step taken after the cancellation starts no request and moves no loop
AfterCancellation ==
    /\ (sup_pc'[CLEANUP] = "stopped" /\ sup_pc[CLEANUP] # "stopped") =>
          (sup_pc[CLEANUP] = "close" /\ AllCancelled)
    /\ cancelling =>
          UNCHANGED <<task, gc, locked, backend, kv, sampler, runs, captured,
                      num_exceptions_in_chain>>

\* C37: after a shutdown signal, cleanup cancels every task other than
\* itself before it closes the KV and HTTP clients; every supervised loop
\* (outer ingester, the full and the updates loop of each feed, metrics
\* sampler) then terminates, and no feed, backend or KV request is started by
\* any loop after the cancellation has been delivered.
C37_CancelThenClose ==
    /\ [](sup_pc[CLEANUP] \in {"close", "stopped"} <=> cancelling)
    /\ [](cancelling => AllCancelled)
    /\ [][AfterCancellation]_vars

\* the clients are closed after a signal that came while a loop of the feed
\* awaited its bulk push and the sampler was in its backoff sleep
C37_Witness ==
    /\ sup_pc[CLEANUP] = "stopped"
    /\ \E l \in Loops : task[l].pc = "cancelled" /\ task[l].failed_at = "push"
    /\ sup_pc[SAMPLER] = "done" /\ poll.pc = "failed"

\* C38: consecutive successful updates passes of feed f are contiguous: the
\* first URL fetched by an updates pass is the URL stored in
\* feed_updates_url:<f> by the previous successful updates pass when that key
\* is present, and feed_updates_seed_url:<f> is used as the starting URL only
\* when feed_updates_url:<f> is absent. An updates pass whose cursor is
\* present does not wait for the seed key.
C38_UpdatesPassesContiguous ==
    [][\A f \in feed_unique_ids :
          LET l == Loop(f, "updates") IN
          /\ (task[l].pc = "get_url" /\ task'[l].pc = "list") =>
                IF feed_updates_url[f] # ABSENT
                THEN task'[l].href = feed_updates_url[f]
                ELSE /\ task'[l].href = feed_updates_seed_url[f]
                     /\ feed_updates_seed_url[f] \notin {ABSENT, NOT_EXISTS, ""}
          /\ (task[l].pc = "list" /\ PageEntry(l)) =>
                /\ task'[l].href = task[l].href
                /\ feed_updates_url[f] # ABSENT => task'[l].href = feed_updates_url[f]
          /\ ( /\ Active(l) /\ task[l].pc = "get_url"
               /\ run_budget = 0 \/ runs < run_budget
               /\ feed_updates_url[f] # ABSENT ) => ENABLED UpdatesGetUrl(f)
          /\ feed_updates_url'[f] # feed_updates_url[f] =>
                /\ task[l].pc = "set_url" /\ task'[l].pc = "sleep"
                /\ feed_updates_url'[f] = task[l].updates_href]_vars

\* an updates pass fetches its first page at the stored cursor while a full
\* ingest that has written the sentinel over the seed key is under way
C38_Witness ==
    \E f \in feed_unique_ids :
        /\ Updates(f).pc = "fetch"
        /\ feed_updates_url[f] # ABSENT /\ Updates(f).href = feed_updates_url[f]
        /\ feed_updates_seed_url[f] = NOT_EXISTS
        /\ Full(f).pc = "push"

\* the updates pass awaits the refresh of an index that is gone: a request
\* that cannot be answered 200
UpdatesRefreshMustFail ==
    /\ Updates(PeriodicFeed).pc = "refresh"
    /\ Updates(PeriodicFeed).pending \ indexes # {}

\* C39: once a full ingest of feed f has completed record_cursor, the
\* updates loop of f eventually starts a pass that fetches at least one page,
\* given fair scheduling and no failing requests, while full ingests of f keep
\* repeating and each of them begins by writing the unset sentinel to
\* feed_updates_seed_url:<f>.
C39_UpdatesEventuallyFetch ==
    (PeriodicFeed \in recorded) ~>
        (Updates(PeriodicFeed).pc = "push" \/ UpdatesRefreshMustFail)

\* with a cursor in feed_updates_url:<f> the updates loop does not depend on
\* the seed key, and a pass of it fetches a page again and again
UpdatesFetchWithCursor ==
    (PeriodicFeed \in recorded /\ feed_updates_url[PeriodicFeed] # ABSENT) ~>
        (Updates(PeriodicFeed).pc = "push" \/ UpdatesRefreshMustFail)
====
